---- MODULE Spec2Model ----
(***************************************************************************)
(* A model of the delivery/export pipeline of tk-desktop-deliveries:       *)
(* the worker threads of DeliveryModel, the ShotGridCache, the NukeProcess  *)
(* wrapper, the validation engine, the rerender decision of                 *)
(* _deliver_sequence and the export run of ExportShotsThread.               *)
(* Each component has its own specification over the shared variables; the  *)
(* variables of the other components stay at their idle values.             *)
(***************************************************************************)
EXTENDS Integers, Sequences, FiniteSets, TLC

None == "None"

(***************************************************************************)
(* Bounds of the model (not program constants).                            *)
(***************************************************************************)
\* number of QThread objects the model lets the application create
MaxThreads == 3
\* number of dict objects the production database hands out in all
MaxObjects == 4
\* number of versions in the batch
NVersions == 2
\* the total the renderer announces in its Frame lines
NFrames == 2
\* lines in one read of the renderer's standard output
MaxLines == 2
\* reads of the renderer's standard output and standard error in one run
MaxReads == 2
\* jobs (preview renders plus the sequence job) of one version
MaxJobs == 2
\* the highest frame number of a version
MaxFrame == 3
\* the versions added to one entity
MaxAdds == 4
\* the largest version number of a published file
MaxVersionNumber == 2
\* the configured preview outputs
MaxOutputs == 3
\* the shots of the project
MaxShots == 2

VARIABLES
    \* ---- DeliveryModel worker threads (model.py) ----
    load_shots_thread,    \* DeliveryModel.load_shots_thread: a thread id, 0 for None
    export_shots_thread,  \* DeliveryModel.export_shots_thread: a thread id, 0 for None
    thread_kind,          \* thread id -> "none" | "load" | "export"
    thread_state,         \* thread id -> "new" | "running" | "finished" | "terminated"
    app_open,             \* FALSE once closeEvent ran DeliveryModel.quit
    \* ---- ShotGridCache (shotgrid_cache.py) ----
    sg_heap,              \* the dict objects returned by the database, by reference
    sg_raw,               \* sg_cache[type]["raw_entities"]: sequence of references
    sg_entities,          \* sg_cache[type]["entities"]: sequence of references
    sg_query,             \* sg_cache[type]["query"]: query string -> [hit, ids]
    sg_fields,            \* ShotGridCache.fields: types whose schema was read
    found,                \* history: the <<type, filters>> pairs find() was asked
    lastFind,             \* history: what the last find() call did
    \* ---- the versions of the batch (version.py) ----
    ver,                  \* version id -> [progress, validation_message, validation_error]
    cb_error,             \* version id -> number of show_validation_error calls
    cb_message,           \* version id -> number of show_validation_message calls
    \* ---- NukeProcess (nuke_process.py) and the job that runs it ----
    nk_version,           \* NukeProcess.version: the version being rendered
    nk_job,               \* [current_job, total_jobs] of deliver_version's update_progress
    nk_pc,                \* "init" | "running" | "returned" | "raised" | "caught"
    nk_args,              \* the args list handed to run (one list object, changed in place)
    has_started,          \* NukeProcess._has_started
    has_rendered,         \* NukeProcess._has_rendered
    error_message,        \* NukeProcess._error_message: the stderr reads, concatenated
    nk_raised,            \* the exception leaving run: "none" | "LicenseError" | "Exception"
    nk_invocations,       \* history: the args of every process.start
    nk_exit_errors,       \* history: _error_message at every exit of the renderer
    nk_reads,             \* history: stdout and stderr reads so far
    nk_license,           \* history: the raise LicenseError statement was executed
    nk_marker,            \* history: a stdout read held the license-unavailable marker
    nk_messages,          \* history: the messages _on_output reported in this attempt
    nk_stdout,            \* history: the reads of standard output in this attempt
    nk_zero,              \* history: the update_progress_bars(0) calls made with "Starting"
    nk_frame_reads,       \* history: the reads with a Frame line and no license text
    nk_frame_lines,       \* history: the Frame lines the renderer wrote in this attempt
    nk_progress,          \* history: the calls of update_progress_bars for a Frame line
    nk_stderr,            \* history: the reads of standard error in this attempt
    \* ---- validate_all_versions (model.py) ----
    val_in,               \* version id -> the fields of the Version and the files on disk
    val_i,                \* the version the loop of validate_all_versions is at
    val_success,          \* the local success
    val_pc,               \* "running" | "returned"
    val_errors,           \* history: version id -> the list errors of its iteration
    val_sweep,            \* history: version id -> what validate_all_frames_exist returned
    \* ---- _deliver_sequence (model.py) ----
    sq_in,                \* the version, the settings and the header of its first frame
    sq_pc,                \* "start" | "decided" | "rendered" | "linking" | "done" | "raised"
    output,               \* the local output: the matched SequenceOutput, or NoOutput
    should_rerender,      \* the local should_rerender
    sq_args,              \* the args handed to NukeProcess.run
    sq_cli,               \* the dict dumped as the value of --write-settings
    sq_runs,              \* history: the number of NukeProcess.run calls
    sq_frame,             \* the frame the link/copy loop is at
    sq_linked,            \* the frames linked or copied to the delivery folder
    sq_messages,          \* history: the validation messages shown
    sq_progress,          \* history: the values passed to update_progress
    \* ---- ExportShotsThread.run and create_csv (export_shots_thread.py) ----
    ex_pc,                \* "collect" | "number" | "mkdir" | "deliver" | "csv" |
                          \* "finish" | "finished" | "crashed" | "idle"
    ex_run,               \* "first" | "second": which export run this is
    ex_crash,             \* history: the step whose exception ended run(), or "none"
    user_settings,        \* user_settings: delivery_version (0 for None)
    episode_folders,      \* "Episode" in delivery_folder_template.keys
    get_deliverables,     \* version id -> the Deliverables the caller answers
    version_deliverables, \* the version ids with a deliverable requested
    episodes,             \* the local episodes
    episode_delivery_versions, \* episode -> delivery version (0 while not set)
    ex_i,                 \* the index of the loop run() is in
    fs_root,              \* whether the destination root exists
    fs_folders,           \* the delivery folders under the destination root
    fs_files,             \* the delivered artifacts on disk
    fs_csv,               \* the manifests on disk
    finish_calls,         \* history: finish_export_versions calls of this run
    ex_attempted,         \* history: the versions deliver_version was called for
    ex_outcome,           \* history: version id -> how deliver_version ended
    csv_written,          \* history: the folders whose manifest this run wrote
    csv_before,           \* history: the manifests when the run started
    sg_status,            \* the status updates the production database has taken
    ex_step,              \* history: version id -> the step deliver_version ended in
    continuous_versioning,\* settings.continuous_versioning
    fs_items,             \* the other items of the destination root, by name
    ex_scans,             \* history: the scans of the destination root by this run
    ex_batch,             \* which set of entities is loaded for delivery
    \* ---- Shot and Asset (shot.py, asset.py) ----
    ent_type,             \* the class of the entity: "Shot" or "Asset"
    ent_versions,         \* self._versions: the list of the entity's versions
    \* ---- the preview outputs (controller.py, actions.py) ----
    po_extensions,        \* settings.delivery_preview_outputs: the extension of each output
    po_enabled,           \* the checkboxes preview_output_<i>_enabled
    po_user,              \* user_settings.delivery_preview_outputs set by on_previews_change
    po_got,               \* delivery_preview_outputs of the last get_user_settings
    \* ---- FieldTemplateString.apply_context (field_template_string.py) ----
    cx_in,                \* the context, the cache and the fields of the template
    cx_pc,                \* "call", "returned" or "raised"
    cx_shot,              \* the id of the shot apply_context resolved, 0 for None
    cx_version,           \* the id of the version apply_context resolved, 0 for None
    \* ---- the user settings of an export run (controller.py, actions.py) ----
    us_shared,            \* Settings.user_settings, the object the handlers assign to
    us_use_letterbox,     \* use_letterbox of each object of settings.delivery_preview_outputs
    us_run,               \* the UserSettings object the export thread holds
    us_start,             \* what the run held when it was started
    us_pc,                \* "idle", "numbering", "delivering", "manifest", "finish", "done"
    us_read,              \* the values the run has read so far
    \* ---- the jobs of one deliver_version call (model.py) ----
    dl_in,                \* the deliverables, the number of preview outputs, the entity type
    dl_pc,                \* "previews", "sequence", "update", "finish", "returned", "raised"
    dl_job,               \* current_job
    dl_produced,          \* the artifacts written: the number of a preview job, 0 for the sequence
    dl_status,            \* the status the Version record was updated to, None without update
    dl_message,           \* version.validation_message
    dl_progress           \* version.progress, as <<numerator, denominator>>

threadVars == <<load_shots_thread, export_shots_thread, thread_kind,
                thread_state, app_open>>
cacheVars == <<sg_heap, sg_raw, sg_entities, sg_query, sg_fields, found, lastFind>>

verVars == <<ver, cb_error, cb_message>>
nukeVars == <<nk_version, nk_job, nk_pc, nk_args, has_started, has_rendered,
              error_message, nk_raised, nk_invocations, nk_exit_errors,
              nk_reads, nk_license, nk_marker, nk_messages, nk_stdout, nk_zero,
              nk_frame_reads, nk_frame_lines, nk_progress, nk_stderr>>

nkHistVars == <<nk_messages, nk_stdout, nk_zero, nk_frame_reads, nk_frame_lines,
                nk_progress, nk_stderr>>

valVars == <<val_in, val_i, val_success, val_pc, val_errors, val_sweep>>

seqVars == <<sq_in, sq_pc, output, should_rerender, sq_args, sq_cli, sq_runs,
             sq_frame, sq_linked, sq_messages, sq_progress>>

exVars == <<ex_pc, ex_run, ex_crash, user_settings, episode_folders, get_deliverables,
            version_deliverables, episodes, episode_delivery_versions, ex_i, fs_root,
            fs_folders, fs_files, fs_csv, finish_calls, ex_attempted, ex_outcome,
            csv_written, csv_before, sg_status, ex_step, continuous_versioning,
            fs_items, ex_scans, ex_batch>>

entVars == <<ent_type, ent_versions>>
poVars == <<po_extensions, po_enabled, po_user, po_got>>
cxVars == <<cx_in, cx_pc, cx_shot, cx_version>>
usVars == <<us_shared, us_use_letterbox, us_run, us_start, us_pc, us_read>>
dlVars == <<dl_in, dl_pc, dl_job, dl_produced, dl_status, dl_message, dl_progress>>

exDbVars == <<sg_status, ex_step>>
exScanVars == <<continuous_versioning, fs_items, ex_scans, ex_batch>>

vars == <<threadVars, cacheVars, verVars, nukeVars, valVars, seqVars, exVars, entVars, poVars, cxVars, usVars, dlVars>>

\* what the actions of one component leave alone
notThreadVars == <<cacheVars, verVars, nukeVars, valVars, seqVars, exVars, entVars, poVars, cxVars, usVars, dlVars>>
notCacheVars == <<threadVars, verVars, nukeVars, valVars, seqVars, exVars, entVars, poVars, cxVars, usVars, dlVars>>
notNukeVars == <<threadVars, cacheVars, valVars, seqVars, exVars, entVars, poVars, cxVars, usVars, dlVars>>
notValVars == <<threadVars, cacheVars, nukeVars, seqVars, exVars, entVars, poVars, cxVars, usVars, dlVars>>
notSeqVars == <<threadVars, cacheVars, verVars, nukeVars, valVars, exVars, entVars, poVars, cxVars, usVars, dlVars>>
notExVars == <<threadVars, cacheVars, nukeVars, valVars, seqVars, entVars, poVars, cxVars, usVars, dlVars>>
notEntVars == <<threadVars, cacheVars, verVars, nukeVars, valVars, seqVars, exVars, poVars, cxVars, usVars, dlVars>>
notPoVars == <<threadVars, cacheVars, verVars, nukeVars, valVars, seqVars, exVars, entVars, cxVars, usVars, dlVars>>
notCxVars == <<threadVars, cacheVars, verVars, nukeVars, valVars, seqVars, exVars, entVars, poVars, usVars, dlVars>>
notUsVars == <<threadVars, cacheVars, verVars, nukeVars, valVars, seqVars, exVars, entVars, poVars, cxVars, dlVars>>
notDlVars == <<threadVars, cacheVars, verVars, nukeVars, valVars, seqVars, exVars, entVars, poVars, cxVars, usVars>>

(***************************************************************************)
(* Shot and Asset: the list of versions of an entity.                      *)
(***************************************************************************)
\* the version numbers the published files carry, -1 standing for a version
\* without published file
VersionNumbers == (0 - 1)..MaxVersionNumber

\* Version.__init__: self.version_number = max(0, int(version_number))
NewVersion(id, version_number) ==
    [id |-> id, version_number |-> IF version_number < 0 THEN 0 ELSE version_number]

RECURSIVE sorted(_)
\* sorted(list, key=lambda v: v.version_number): ascending, and stable (the
\* first of the smallest elements is taken out first)
sorted(list) ==
    IF list = << >> THEN << >>
    ELSE LET k == CHOOSE i \in DOMAIN list :
                     /\ \A j \in DOMAIN list :
                           list[i].version_number <= list[j].version_number
                     /\ \A j \in DOMAIN list :
                           (j < i) => list[j].version_number > list[i].version_number
         IN << list[k] >>
            \o sorted([j \in 1..(Len(list) - 1) |-> IF j < k THEN list[j] ELSE list[j + 1]])

\* add_version without the sort
add_version_append_only(versions, version) == Append(versions, version)

\* add_version: the version is appended and the list is replaced by its
\* sorted copy
add_version(versions, version) == sorted(Append(versions, version))

\* get_versions: the list itself
get_versions == ent_versions

EntIdle ==
    /\ ent_type = "Shot"
    /\ ent_versions = << >>

\* Shot.__init__, Asset.__init__
EntInit ==
    /\ ent_type \in {"Shot", "Asset"}
    /\ ent_versions = << >>

\* entity.add_version(version), the versions coming in the order of the query
AddVersion ==
    /\ Len(ent_versions) < MaxAdds
    /\ \E n \in VersionNumbers :
          ent_versions' = add_version(ent_versions, NewVersion(Len(ent_versions) + 1, n))
    /\ UNCHANGED <<ent_type, notEntVars>>

(***************************************************************************)
(* The preview outputs of a run: get_user_settings and on_previews_change. *)
(* An output is named by its position in settings.delivery_preview_outputs *)
(* (position 1 is index 0 of the list).                                    *)
(***************************************************************************)
OutputIds == 1..MaxOutputs
Extensions == {"mov", "mp4"}

\* list(enumerate(outputs)) as it is
ForwardEnumeration == [k \in OutputIds |-> k]

\* list(enumerate(outputs)) after reverse()
input_preview_outputs == [k \in OutputIds |-> MaxOutputs + 1 - k]

RECURSIVE PreviewLoop(_, _, _)
\* "for i, output in input_preview_outputs" from position k on: an enabled
\* output is appended unless an output of its extension is in the list
PreviewLoop(enabled, k, delivery_outputs) ==
    IF k > Len(input_preview_outputs) THEN delivery_outputs
    ELSE LET i == input_preview_outputs[k]
         IN PreviewLoop(enabled, k + 1,
               IF /\ enabled[i]
                  /\ ~\E n \in DOMAIN delivery_outputs :
                        po_extensions[i] = po_extensions[delivery_outputs[n]]
               THEN Append(delivery_outputs, i)
               ELSE delivery_outputs)

\* a list of outputs computed from a state of the checkboxes
Computed(enabled) ==
    [set |-> TRUE, enabled |-> enabled, outputs |-> PreviewLoop(enabled, 1, << >>)]
NotComputed == [set |-> FALSE, enabled |-> [i \in OutputIds |-> FALSE], outputs |-> << >>]

PoIdle ==
    /\ po_extensions = [i \in OutputIds |-> "mov"]
    /\ po_enabled = [i \in OutputIds |-> FALSE]
    /\ po_user = NotComputed
    /\ po_got = NotComputed

\* load_preview_outputs: a checkbox per configured output, checked when the
\* output has default_enabled
PoInit ==
    /\ po_extensions \in [OutputIds -> Extensions]
    /\ po_enabled \in [OutputIds -> BOOLEAN]
    /\ po_user = NotComputed
    /\ po_got = NotComputed

\* the user clicks a checkbox; toggle_preview_output unchecks the other
\* outputs of the extension when the box got checked
TogglePreviewOutput ==
    /\ \E i \in OutputIds :
          po_enabled' =
             IF po_enabled[i] THEN [po_enabled EXCEPT ![i] = FALSE]
             ELSE [j \in OutputIds |->
                     IF j = i THEN TRUE
                     ELSE IF po_extensions[j] = po_extensions[i] THEN FALSE
                     ELSE po_enabled[j]]
    /\ UNCHANGED <<po_extensions, po_user, po_got, notPoVars>>

\* DeliveryActions.on_previews_change
OnPreviewsChange ==
    /\ po_user' = Computed(po_enabled)
    /\ UNCHANGED <<po_extensions, po_enabled, po_got, notPoVars>>

\* DeliveryController.get_user_settings
GetUserSettings ==
    /\ po_got' = Computed(po_enabled)
    /\ UNCHANGED <<po_extensions, po_enabled, po_user, notPoVars>>

(***************************************************************************)
(* FieldTemplateString.apply_context: the version and the shot the fields  *)
(* of a template are resolved against.  An id 0 stands for None; there is  *)
(* one version, with id 1.                                                 *)
(***************************************************************************)
ShotIds == 1..MaxShots

\* what context.entity, or the field "entity" of a version record, can be
NoEntity == [type |-> None, id |-> 0]
EntityRefs ==
    {NoEntity, [type |-> "Version", id |-> 1], [type |-> "Asset", id |-> 1]}
    \cup {[type |-> "Shot", id |-> i] : i \in ShotIds}

\* the calls of apply_context: the context, the raw records of the cache and
\* whether the template has version and shot fields
ContextInputs ==
    [entity : EntityRefs,
     version : {0, 1},
     shot : {0} \cup ShotIds,
     raw_shots : SUBSET ShotIds,
     raw_version : BOOLEAN,
     version_entity : {r \in EntityRefs : r.type \in {"Shot", "Asset"}},
     version_field : BOOLEAN,
     shot_field : BOOLEAN]

\* cache.get_raw(entity_type): sg_cache.get(entity_type, {}).get("raw_entities", []),
\* as the ids of the records; the keys of sg_cache are "Version" and "Shot"
get_raw(in, entity_type) ==
    IF entity_type = "Shot" THEN in.raw_shots
    ELSE IF entity_type = "Version" THEN (IF in.raw_version THEN {1} ELSE {})
    ELSE {}

\* next((r for r in records if r["id"] == id), None)
NextById(records, id) == IF id \in records THEN id ELSE 0

\* version after the blocks for context.entity and context.version
ResolvedVersion(in) ==
    LET from_entity == IF in.entity.type = "Version"
                       THEN NextById(get_raw(in, "Version"), in.entity.id) ELSE 0
    IN IF from_entity = 0 /\ in.version # 0
       THEN NextById(get_raw(in, "Version"), in.version)
       ELSE from_entity

\* shot after the blocks for context.entity, for the parent of the resolved
\* version (which assigns shot whatever it held) and for context.shot (which
\* reads get_raw("shot"))
ResolvedShot(in) ==
    LET from_entity == IF in.entity.type = "Shot"
                       THEN NextById(get_raw(in, "Shot"), in.entity.id) ELSE 0
        from_version == IF ResolvedVersion(in) # 0 /\ in.version_entity.type = "Shot"
                        THEN NextById(get_raw(in, "Shot"), in.version_entity.id)
                        ELSE from_entity
    IN IF from_version = 0 /\ in.shot # 0
       THEN NextById(get_raw(in, "shot"), in.shot)
       ELSE from_version

CxIdle ==
    /\ cx_in = [entity |-> NoEntity, version |-> 0, shot |-> 0, raw_shots |-> {},
                raw_version |-> FALSE, version_entity |-> [type |-> "Asset", id |-> 1],
                version_field |-> FALSE, shot_field |-> FALSE]
    /\ cx_pc = "call"
    /\ cx_shot = 0
    /\ cx_version = 0

\* a template and a context with a file context, before apply_context
CxInit ==
    /\ cx_in \in ContextInputs
    /\ cx_pc = "call"
    /\ cx_shot = 0
    /\ cx_version = 0

\* apply_context up to the checks of the version and of the shot
ApplyContext ==
    /\ cx_pc = "call"
    /\ cx_version' = ResolvedVersion(cx_in)
    /\ IF cx_in.version_field /\ ResolvedVersion(cx_in) = 0
       THEN cx_pc' = "raised" /\ cx_shot' = 0
       ELSE /\ cx_shot' = ResolvedShot(cx_in)
            /\ cx_pc' = IF cx_in.shot_field /\ ResolvedShot(cx_in) = 0
                        THEN "raised" ELSE "returned"
    /\ UNCHANGED <<cx_in, notCxVars>>

(***************************************************************************)
(* The user settings of an export run.  A delivery version, a delivery     *)
(* location and a CSV template are numbers, 0 for None or no column; the   *)
(* letterbox is TRUE for a Letterbox object and FALSE for None.            *)
(***************************************************************************)
\* settings.delivery_preview_outputs: two outputs of different extensions
ConfiguredOutputs == {1, 2}

\* list(enumerate(outputs)) after reverse()
ReversedOutputs == <<2, 1>>

\* the loop over the reversed outputs: the enabled ones, in that order
EnabledOutputs(enabled) == SelectSeq(ReversedOutputs, LAMBDA i : i \in enabled)

\* UserSettings(): what the constructor leaves without arguments
DefaultUserSettings ==
    [delivery_version |-> 0, delivery_location |-> 0, letterbox |-> FALSE,
     delivery_preview_outputs |-> << >>, csv_fields |-> 0]

\* the UserSettings objects get_user_settings builds here: a panel with no
\* override and no column, or with a delivery version, a delivery location
\* and a column, and any letterbox and outputs
UserSettingsValues ==
    {[delivery_version |-> n, delivery_location |-> n, letterbox |-> l,
      delivery_preview_outputs |-> EnabledOutputs(e), csv_fields |-> n] :
        n \in {0, 1}, l \in BOOLEAN, e \in SUBSET ConfiguredOutputs}

NothingRead ==
    [delivery_version |-> << >>, delivery_location |-> << >>,
     letterbox |-> << >>, csv_fields |-> << >>]

\* what a run reads of its settings: the fields of the object it holds and
\* use_letterbox of the outputs of its list
Held(settings, use_letterbox) ==
    [settings |-> settings,
     use_letterbox |-> [k \in DOMAIN settings.delivery_preview_outputs |->
                           use_letterbox[settings.delivery_preview_outputs[k]]]]

UsIdle ==
    /\ us_shared = DefaultUserSettings
    /\ us_use_letterbox = [i \in ConfiguredOutputs |-> TRUE]
    /\ us_run = DefaultUserSettings
    /\ us_start = Held(DefaultUserSettings, [i \in ConfiguredOutputs |-> TRUE])
    /\ us_pc = "idle"
    /\ us_read = NothingRead

\* after Settings.__init__: PreviewOutput.from_dict leaves use_letterbox at
\* its default, and the class attribute user_settings is UserSettings()
UsInit == UsIdle

\* DeliveryController.export_versions: get_user_settings builds a UserSettings
\* from the widgets, with a new list of the objects of
\* settings.delivery_preview_outputs, and the export thread is started with it
ExportVersions ==
    /\ us_pc = "idle"
    /\ \E settings \in UserSettingsValues :
          /\ us_run' = settings
          /\ us_start' = Held(settings, us_use_letterbox)
    /\ us_pc' = "numbering"
    /\ us_read' = NothingRead
    /\ UNCHANGED <<us_shared, us_use_letterbox, notUsVars>>

\* DeliveryActions.on_delivery_version_change
OnDeliveryVersionChange ==
    /\ \E delivery_version \in {0, 1} :
          us_shared' = [us_shared EXCEPT !.delivery_version = delivery_version]
    /\ UNCHANGED <<us_use_letterbox, us_run, us_start, us_pc, us_read, notUsVars>>

\* DeliveryActions.on_delivery_location_change
OnDeliveryLocationChange ==
    /\ \E delivery_location \in {0, 1} :
          us_shared' = [us_shared EXCEPT !.delivery_location = delivery_location]
    /\ UNCHANGED <<us_use_letterbox, us_run, us_start, us_pc, us_read, notUsVars>>

\* DeliveryActions.on_letterbox_enable_change
OnLetterboxEnableChange ==
    /\ \E letterbox \in BOOLEAN :
          us_shared' = [us_shared EXCEPT !.letterbox = letterbox]
    /\ UNCHANGED <<us_use_letterbox, us_run, us_start, us_pc, us_read, notUsVars>>

\* DeliveryActions.on_previews_change: with a valid letterbox in the panel,
\* use_letterbox of every output that enters the list is set from its checkbox
OnRunPreviewsChange ==
    /\ \E enabled \in SUBSET ConfiguredOutputs, letterbox_is_valid \in BOOLEAN :
       \E checked \in [enabled -> BOOLEAN] :
          /\ us_use_letterbox' =
                [i \in ConfiguredOutputs |->
                    IF letterbox_is_valid /\ i \in enabled
                    THEN checked[i] ELSE us_use_letterbox[i]]
          /\ us_shared' =
                [us_shared EXCEPT !.delivery_preview_outputs = EnabledOutputs(enabled)]
    /\ UNCHANGED <<us_run, us_start, us_pc, us_read, notUsVars>>

\* DeliveryActions.on_csv_change
OnCsvChange ==
    /\ \E csv_fields \in {0, 1} :
          us_shared' = [us_shared EXCEPT !.csv_fields = csv_fields]
    /\ UNCHANGED <<us_use_letterbox, us_run, us_start, us_pc, us_read, notUsVars>>

\* ExportShotsThread.run, the numbering of the delivery
RunNumbering ==
    /\ us_pc = "numbering"
    /\ us_read' = [us_read EXCEPT
                      !.delivery_version = Append(@, us_run.delivery_version),
                      !.delivery_location = Append(@, us_run.delivery_location)]
    /\ us_pc' = "delivering"
    /\ UNCHANGED <<us_shared, us_use_letterbox, us_run, us_start, notUsVars>>

\* deliver_version: the next output of the list is rendered, with --letterbox
\* when user_settings.letterbox is not None and output.use_letterbox; the
\* render is awaited with processEvents
RunDeliverPreview ==
    /\ us_pc = "delivering"
    /\ LET k == Len(us_read.letterbox) + 1
       IN IF k > Len(us_run.delivery_preview_outputs)
          THEN us_pc' = "manifest" /\ us_read' = us_read
          ELSE /\ us_read' =
                     [us_read EXCEPT !.letterbox =
                         Append(@, us_run.letterbox
                                   /\ us_use_letterbox[us_run.delivery_preview_outputs[k]])]
               /\ us_pc' = us_pc
    /\ UNCHANGED <<us_shared, us_use_letterbox, us_run, us_start, notUsVars>>

\* create_csv
RunCreateCsv ==
    /\ us_pc = "manifest"
    /\ us_read' = [us_read EXCEPT
                      !.delivery_location = Append(@, us_run.delivery_location),
                      !.csv_fields = Append(@, us_run.csv_fields)]
    /\ us_pc' = "finish"
    /\ UNCHANGED <<us_shared, us_use_letterbox, us_run, us_start, notUsVars>>

\* finish_export_versions
RunFinish ==
    /\ us_pc = "finish"
    /\ us_pc' = "done"
    /\ UNCHANGED <<us_shared, us_use_letterbox, us_run, us_start, us_read, notUsVars>>

\* settings.version_delivered_status, version_preview_delivered_status and
\* shot_delivered_status
version_delivered_status == "dlvr"
version_preview_delivered_status == "pdlvr"
shot_delivered_status == "shot dlvr"

(***************************************************************************)
(* The jobs of one deliver_version call: a render per preview output, the  *)
(* sequence, the update of the Version record and the final message.       *)
(***************************************************************************)
\* the calls of deliver_version: run() calls it for a version with a
\* deliverable requested; the list of preview outputs of the run has between
\* no and all configured outputs
DeliverInputs ==
    {i \in [deliver_preview : BOOLEAN, deliver_sequence : BOOLEAN,
            outputs : 0..MaxOutputs, entity_type : {"Shot", "Asset"}] :
        i.deliver_preview \/ i.deliver_sequence}

preview_jobs(in) == IF in.deliver_preview THEN in.outputs ELSE 0
sequence_jobs(in) == IF in.deliver_sequence THEN 1 ELSE 0
total_jobs(in) == preview_jobs(in) + sequence_jobs(in)

\* update_progress(1.0), the last report of a job
update_progress(in, current_job) == <<1 + current_job, total_jobs(in)>>

DlIdle ==
    /\ dl_in = [deliver_preview |-> FALSE, deliver_sequence |-> TRUE, outputs |-> 0,
                entity_type |-> "Shot"]
    /\ dl_pc = "previews"
    /\ dl_job = 0
    /\ dl_produced = {}
    /\ dl_status = None
    /\ dl_message = ""
    /\ dl_progress = <<0, 1>>

\* deliver_version at "Get count of total jobs"
DlInit ==
    /\ dl_in \in DeliverInputs
    /\ dl_pc = "previews"
    /\ dl_job = 0
    /\ dl_produced = {}
    /\ dl_status = None
    /\ dl_message = ""
    /\ dl_progress = <<0, 1>>

\* the loop over user_settings.delivery_preview_outputs: _deliver_preview
\* writes the file of the output or raises
DeliverPreviewJob ==
    /\ dl_pc = "previews"
    /\ IF dl_in.deliver_preview /\ dl_job < dl_in.outputs
       THEN \E raised \in BOOLEAN :
               IF raised
               THEN /\ dl_pc' = "raised"
                    /\ UNCHANGED <<dl_job, dl_produced, dl_progress>>
               ELSE /\ dl_produced' = dl_produced \cup {dl_job + 1}
                    /\ dl_progress' = update_progress(dl_in, dl_job)
                    /\ dl_job' = dl_job + 1
                    /\ dl_pc' = dl_pc
       ELSE /\ dl_pc' = "sequence"
            /\ UNCHANGED <<dl_job, dl_produced, dl_progress>>
    /\ UNCHANGED <<dl_in, dl_status, dl_message, notDlVars>>

\* "if deliverables.deliver_sequence": _deliver_sequence writes the frames
\* or raises
DeliverSequenceJob ==
    /\ dl_pc = "sequence"
    /\ IF dl_in.deliver_sequence
       THEN \E raised \in BOOLEAN :
               IF raised
               THEN /\ dl_pc' = "raised"
                    /\ UNCHANGED <<dl_produced, dl_progress>>
               ELSE /\ dl_produced' = dl_produced \cup {0}
                    /\ dl_progress' = update_progress(dl_in, dl_job)
                    /\ dl_pc' = "update"
       ELSE /\ dl_pc' = "update"
            /\ UNCHANGED <<dl_produced, dl_progress>>
    /\ UNCHANGED <<dl_in, dl_job, dl_status, dl_message, notDlVars>>

\* the attachment, the LUT and shotgrid_connection.update("Version", ...)
UpdateVersionData ==
    /\ dl_pc = "update"
    /\ \E raised \in BOOLEAN :
          IF raised
          THEN dl_pc' = "raised" /\ UNCHANGED dl_status
          ELSE /\ dl_status' = IF ~dl_in.deliver_sequence
                               THEN version_preview_delivered_status
                               ELSE version_delivered_status
               /\ dl_pc' = "finish"
    /\ UNCHANGED <<dl_in, dl_job, dl_produced, dl_message, dl_progress, notDlVars>>

\* the update of the Shot record, for a shot with the sequence delivered, and
\* version.validation_message = "Export finished!"
FinishDelivery ==
    /\ dl_pc = "finish"
    /\ \E raised \in {FALSE} \cup
                     (IF dl_in.deliver_sequence /\ dl_in.entity_type = "Shot"
                      THEN {TRUE} ELSE {}) :
          IF raised
          THEN dl_pc' = "raised" /\ UNCHANGED dl_message
          ELSE dl_message' = "Export finished!" /\ dl_pc' = "returned"
    /\ UNCHANGED <<dl_in, dl_job, dl_produced, dl_status, dl_progress, notDlVars>>

(***************************************************************************)
(* DeliveryModel: the load and the export worker threads.                  *)
(***************************************************************************)
ThreadIds == 1..MaxThreads

ThreadsInit ==
    /\ load_shots_thread = 0
    /\ export_shots_thread = 0
    /\ thread_kind = [t \in ThreadIds |-> "none"]
    /\ thread_state = [t \in ThreadIds |-> "new"]
    /\ app_open = TRUE

\* QThread.isRunning() of the thread a field refers to
isRunning(t) == t # 0 /\ thread_state[t] = "running"

RunningOf(kind) ==
    {t \in ThreadIds : thread_kind[t] = kind /\ thread_state[t] = "running"}

\* the next QThread object to be constructed
FreshThread == CHOOSE t \in ThreadIds :
    /\ thread_kind[t] = "none"
    /\ \A u \in ThreadIds : thread_kind[u] = "none" => t <= u

\* LoadShotsThread(self) / ExportShotsThread(self, ...) followed by .start():
\* a new thread object is constructed and started whatever the state of the
\* thread the field referred to before
StartWorker(kind) ==
    /\ app_open
    /\ \E t \in ThreadIds : thread_kind[t] = "none"
    /\ thread_kind' = [thread_kind EXCEPT ![FreshThread] = kind]
    /\ thread_state' = [thread_state EXCEPT ![FreshThread] = "running"]

load_shots_data ==
    /\ StartWorker("load")
    /\ load_shots_thread' = FreshThread
    /\ UNCHANGED <<export_shots_thread, app_open, notThreadVars>>

export_versions ==
    /\ StartWorker("export")
    /\ export_shots_thread' = FreshThread
    /\ UNCHANGED <<load_shots_thread, app_open, notThreadVars>>

\* LoadShotsThread.run returns (after emitting one of its two signals)
LoadShotsThreadRun ==
    /\ \E t \in RunningOf("load") :
          thread_state' = [thread_state EXCEPT ![t] = "finished"]
    /\ UNCHANGED <<load_shots_thread, export_shots_thread, thread_kind,
                   app_open, notThreadVars>>

\* ExportShotsThread.run returns
ExportShotsThreadRun ==
    /\ \E t \in RunningOf("export") :
          thread_state' = [thread_state EXCEPT ![t] = "finished"]
    /\ UNCHANGED <<load_shots_thread, export_shots_thread, thread_kind,
                   app_open, notThreadVars>>

\* DeliveryModel.quit, called from closeEvent: terminates the two threads the
\* fields refer to, when they run
quit ==
    /\ app_open
    /\ app_open' = FALSE
    /\ thread_state' =
          [t \in ThreadIds |->
              IF (t = load_shots_thread /\ isRunning(load_shots_thread))
                 \/ (t = export_shots_thread /\ isRunning(export_shots_thread))
              THEN "terminated"
              ELSE thread_state[t]]
    /\ UNCHANGED <<load_shots_thread, export_shots_thread, thread_kind, notThreadVars>>

(***************************************************************************)
(* ShotGridCache.                                                          *)
(***************************************************************************)
EntityTypes == {"Version", "Shot"}
Filters == {"by_project", "by_id"}

\* json.dumps(filters): the text of the filter list; two filter lists are
\* equal iff their texts are
JsonDumps(filters) == <<"json", filters>>
Queries == {JsonDumps(f) : f \in Filters}

\* the records connection.find returns: each call builds new dict objects
DbRecords(type, filters) ==
    IF type = "Version"
    THEN IF filters = "by_project"
         THEN << [id |-> 1, sg_status_list |-> "rev"],
                 [id |-> 2, sg_status_list |-> "dlv"] >>
         ELSE << [id |-> 1, sg_status_list |-> "rev"] >>
    ELSE IF filters = "by_project"
         THEN << [id |-> 7, sg_status_list |-> "ip"] >>
         ELSE << >>

\* settings.version_overrides: one override, on Version records
Overrides ==
    << [entity_type |-> "Version",
        match |-> [sg_status_list |-> "rev"],
        replace |-> [sg_status_list |-> "apr"]] >>

\* Settings.get_version_overrides
get_version_overrides(type) ==
    SelectSeq(Overrides, LAMBDA o : o.entity_type = type)

\* the value of a memo lookup that finds nothing (None in the code)
NoMemo == [hit |-> FALSE, ids |-> {}]

CacheInit ==
    /\ sg_heap = << >>
    /\ sg_raw = [t \in EntityTypes |-> << >>]
    /\ sg_entities = [t \in EntityTypes |-> << >>]
    /\ sg_query = [t \in EntityTypes |-> [q \in Queries |-> NoMemo]]
    /\ sg_fields = {}
    /\ found = {}
    /\ lastFind = [type |-> None, filters |-> None, ignore_cache |-> FALSE,
                   repeat |-> FALSE, db_calls |-> 0, from_memo |-> FALSE]

RECURSIVE IndexOfId(_, _, _, _)
\* position of the first reference in refs whose record has the id, 0 if none
IndexOfId(heap, refs, id, i) ==
    IF i > Len(refs) THEN 0
    ELSE IF heap[refs[i]].id = id THEN i
    ELSE IndexOfId(heap, refs, id, i + 1)

RECURSIVE MergeById(_, _, _)
\* {d["id"]: d for d in old + new}.values(): a record of new replaces the
\* record of old with the same id in place, a new id is appended
MergeById(heap, old, new) ==
    IF new = << >> THEN old
    ELSE LET r == Head(new)
             i == IndexOfId(heap, old, heap[r].id, 1)
         IN MergeById(heap,
                      IF i = 0 THEN Append(old, r) ELSE [old EXCEPT ![i] = r],
                      Tail(new))

\* VersionOverride.process on one record
OverrideProcess(o, rec) ==
    IF rec.sg_status_list = o.match.sg_status_list
    THEN [rec EXCEPT !.sg_status_list = o.replace.sg_status_list]
    ELSE rec

RECURSIVE ApplyOverrides(_, _)
ApplyOverrides(os, rec) ==
    IF os = << >> THEN rec
    ELSE ApplyOverrides(Tail(os), OverrideProcess(Head(os), rec))

\* ShotGridCache._process_entity_overrides: override.process changes the dict
\* object it is given, so the heap changes at the references of the list
process_entity_overrides(heap, type, refs) ==
    [r \in DOMAIN heap |->
        IF \E i \in DOMAIN refs : refs[i] = r
        THEN ApplyOverrides(get_version_overrides(type), heap[r])
        ELSE heap[r]]

\* the references the next connection.find hands out
NewRefs(heap, n) == [i \in 1..n |-> Len(heap) + i]

\* ShotGridCache.find_raw: reads the schema once per type, queries the
\* database and merges the records into raw_entities
find_raw_effect(type, filters, recs) ==
    LET heap1 == sg_heap \o recs
        refs == NewRefs(sg_heap, Len(recs))
    IN /\ sg_fields' = sg_fields \cup {type}
       /\ sg_raw' = [sg_raw EXCEPT ![type] = MergeById(heap1, sg_raw[type], refs)]

find_raw ==
    \E type \in EntityTypes, filters \in Filters :
       LET recs == DbRecords(type, filters) IN
       /\ Len(sg_heap) + Len(recs) <= MaxObjects
       /\ find_raw_effect(type, filters, recs)
       /\ sg_heap' = sg_heap \o recs
       /\ UNCHANGED <<sg_entities, sg_query, found, lastFind, notCacheVars>>

\* sg_cache.get(type, {}).get("query", {}).get(query, None)
CachedIds(type, query) == sg_query[type][query]

\* ShotGridCache.find
find ==
    \E type \in EntityTypes, filters \in Filters, ignore_cache \in BOOLEAN :
       LET query == JsonDumps(filters)
           cached_ids == CachedIds(type, query)
           repeat == <<type, filters>> \in found
       IN
       /\ found' = found \cup {<<type, filters>>}
       /\ IF cached_ids.hit /\ ~ignore_cache
          THEN /\ lastFind' = [type |-> type, filters |-> filters,
                               ignore_cache |-> ignore_cache, repeat |-> repeat,
                               db_calls |-> 0, from_memo |-> TRUE]
               /\ UNCHANGED <<sg_heap, sg_raw, sg_entities, sg_query, sg_fields>>
          ELSE LET recs == DbRecords(type, filters)
                   refs == NewRefs(sg_heap, Len(recs))
                   heap1 == sg_heap \o recs
                   heap2 == process_entity_overrides(heap1, type, refs)
               IN
               /\ Len(sg_heap) + Len(recs) <= MaxObjects
               /\ find_raw_effect(type, filters, recs)
               /\ sg_heap' = heap2
               /\ sg_entities' = [sg_entities EXCEPT
                                    ![type] = MergeById(heap2, sg_entities[type], refs)]
               /\ lastFind' = [type |-> type, filters |-> filters,
                               ignore_cache |-> ignore_cache, repeat |-> repeat,
                               db_calls |-> 1, from_memo |-> FALSE]
               /\ UNCHANGED sg_query
       /\ UNCHANGED notCacheVars

\* ShotGridCache.process: the overrides applied to every raw record; the
\* processed view is the list of the same dict objects
process ==
    /\ \E t \in EntityTypes : sg_raw[t] # << >>
    /\ sg_heap' = [r \in DOMAIN sg_heap |->
                     IF \E t \in EntityTypes : \E i \in DOMAIN sg_raw[t] :
                           sg_raw[t][i] = r /\ get_version_overrides(t) # << >>
                     THEN ApplyOverrides(Overrides, sg_heap[r])
                     ELSE sg_heap[r]]
    /\ sg_entities' = [t \in EntityTypes |-> sg_raw[t]]
    /\ UNCHANGED <<sg_raw, sg_query, sg_fields, found, lastFind, notCacheVars>>

(***************************************************************************)
(* The versions of a batch.                                                *)
(***************************************************************************)
VersionIds == 1..NVersions

\* Version.__init__: validation_message = "", validation_error = "", progress = 0
\* (a progress is the fraction <<numerator, denominator>>)
VerFresh == [progress |-> <<0, 1>>, validation_message |-> "",
             validation_error |-> ""]

\* a version deliver_version has delivered
VerDelivered == [progress |-> <<1, 1>>, validation_message |-> "Export finished!",
                 validation_error |-> ""]

\* a version whose delivery failed in the general handler of deliver_version
VerFailed == [progress |-> <<0, 1>>, validation_message |-> "",
              validation_error |->
                  "An error occurred while making the delivery, please check logs!"]

VerIdle ==
    /\ ver = [v \in VersionIds |-> VerFresh]
    /\ cb_error = [v \in VersionIds |-> 0]
    /\ cb_message = [v \in VersionIds |-> 0]

(***************************************************************************)
(* NukeProcess, run by _deliver_preview and _deliver_sequence.             *)
(***************************************************************************)
\* the args list _deliver_preview builds
PreviewArgs(timecode_ref, letterbox, note) ==
    << "-t", "slate_path", "first_frame", "last_frame", "fps", "preview_movie_file",
       "output_preview_path", "logo_path", "-idt", "idt", "-odt", "odt",
       "--font-path", "font_path", "--font-bold-path", "font_bold_path",
       "--write-settings", "cli_string", "--slate-data", "slate_data" >>
    \o (IF timecode_ref THEN << "--timecode-ref", "timecode_ref_path" >> ELSE << >>)
    \o (IF letterbox THEN << "--letterbox", "letterbox" >> ELSE << >>)
    \o (IF note THEN << "--new-submission-note" >> ELSE << >>)

\* the args list _deliver_sequence builds (it never holds --timecode-ref)
SequenceArgs(with_output, slate_only) ==
    << "-t", "plate_path", "first_frame", "last_frame", "publish_file",
       "delivery_sequence_path" >>
    \o (IF with_output THEN << "--write-settings", "cli_string" >> ELSE << >>)
    \o (IF slate_only THEN << "--slate-only" >> ELSE << >>)

\* the args of the jobs of the batch: previews with and without a timecode
\* reference and a letterbox, a rerender and a slate-only sequence render
JobArgs ==
    {PreviewArgs(t, l, TRUE) : t \in BOOLEAN, l \in BOOLEAN}
    \cup {SequenceArgs(TRUE, FALSE), SequenceArgs(FALSE, TRUE)}

\* x in args
Contains(args, x) == \E i \in DOMAIN args : args[i] = x

\* args.index(x)
IndexOf(args, x) == CHOOSE i \in DOMAIN args :
    args[i] = x /\ \A j \in DOMAIN args : args[j] = x => i <= j

\* del new_args[i : i + 2]
DelPair(args, i) ==
    [k \in 1..(Len(args) - (IF i + 1 <= Len(args) THEN 2 ELSE 1)) |->
        IF k < i THEN args[k] ELSE args[k + (IF i + 1 <= Len(args) THEN 2 ELSE 1)]]

\* the retry leaves the args as they are
StripTimecodeRefKept(args) == args

\* i = new_args.index("--timecode-ref"); del new_args[i : i + 2]
StripTimecodeRef(args) == DelPair(args, IndexOf(args, "--timecode-ref"))

\* one read of standard output: a sequence of lines, each "text", "license"
\* (it holds "A license for nuke was not found") or the number i of a line
\* "Frame <n> (<i> of <NFrames>)", written "frame" \o i
Lines == {[kind |-> "text", i |-> 0], [kind |-> "license", i |-> 0]}
         \cup {[kind |-> "frame", i |-> i] : i \in 1..NFrames}

RECURSIVE SeqsUpTo(_, _)
SeqsUpTo(S, n) ==
    IF n = 0 THEN {<< >>}
    ELSE LET shorter == SeqsUpTo(S, n - 1)
         IN shorter \cup {Append(q, x) : q \in shorter, x \in S}

StdoutReads == SeqsUpTo(Lines, MaxLines)

\* "A license for nuke was not found" in stdout
HasLicenseMarker(stdout) == \E k \in DOMAIN stdout : stdout[k].kind = "license"

\* re.search(r".*Frame ([0-9]+) \(([0-9]+) of ([0-9]+)\)", stdout): the match
\* that starts leftmost, that is the one of the first line holding a Frame
\* text ("." matches no line break); 0 when no line matches
FrameMatch(stdout) ==
    IF \E k \in DOMAIN stdout : stdout[k].kind = "frame"
    THEN stdout[CHOOSE k \in DOMAIN stdout :
                   /\ stdout[k].kind = "frame"
                   /\ \A j \in DOMAIN stdout : stdout[j].kind = "frame" => k <= j].i
    ELSE 0

\* one read of standard error: it mentions "AddTimeCode: Invalid start time
\* code" or is some other text
StderrReads == {"AddTimeCode: Invalid start time code", "other error text"}

\* "AddTimeCode: Invalid start time code" in self._error_message
MentionsTimecode(msg) ==
    \E k \in DOMAIN msg : msg[k] = "AddTimeCode: Invalid start time code"

\* update_progress of deliver_version: (progress + current_job) / total_jobs,
\* for the progress num/den
JobProgress(job, num, den) ==
    << num + job.current_job * den, den * job.total_jobs >>

Jobs == {[current_job |-> c, total_jobs |-> t] : c \in 0..(MaxJobs - 1), t \in 1..MaxJobs}

NukeIdle ==
    /\ nk_version = 1
    /\ nk_job = [current_job |-> 0, total_jobs |-> 1]
    /\ nk_pc = "init"
    /\ nk_args = << >>
    /\ has_started = FALSE
    /\ has_rendered = FALSE
    /\ error_message = << >>
    /\ nk_raised = "none"
    /\ nk_invocations = << >>
    /\ nk_exit_errors = << >>
    /\ nk_reads = 0
    /\ nk_license = FALSE
    /\ nk_marker = FALSE
    /\ nk_messages = << >>
    /\ nk_stdout = 0
    /\ nk_zero = 0
    /\ nk_frame_reads = 0
    /\ nk_frame_lines = 0
    /\ nk_progress = 0
    /\ nk_stderr = << >>

\* NukeProcess(version, ...) constructed for one job of version nk_version of a
\* batch delivered in order: the versions before it are delivered, those
\* after it untouched
NukeInit ==
    /\ nk_version \in VersionIds
    /\ nk_job \in {j \in Jobs : j.current_job < j.total_jobs}
    /\ ver = [v \in VersionIds |-> IF v < nk_version THEN VerDelivered ELSE VerFresh]
    /\ cb_error = [v \in VersionIds |->
                     IF ver[v].validation_error # "" THEN 1 ELSE 0]
    /\ cb_message = [v \in VersionIds |->
                     IF ver[v].validation_message # "" THEN 1 ELSE 0]
    /\ nk_pc = "init"
    /\ nk_args \in JobArgs
    /\ has_started = FALSE
    /\ has_rendered = FALSE
    /\ error_message = << >>
    /\ nk_raised = "none"
    /\ nk_invocations = << >>
    /\ nk_exit_errors = << >>
    /\ nk_reads = 0
    /\ nk_license = FALSE
    /\ nk_marker = FALSE
    /\ nk_messages = << >>
    /\ nk_stdout = 0
    /\ nk_zero = 0
    /\ nk_frame_reads = 0
    /\ nk_frame_lines = 0
    /\ nk_progress = 0
    /\ nk_stderr = << >>

\* NukeProcess.run up to its wait loop: self.process.start(nuke_path, args)
NukeRun ==
    /\ nk_pc = "init"
    /\ nk_pc' = "running"
    /\ nk_invocations' = Append(nk_invocations, nk_args)
    /\ UNCHANGED <<nk_version, nk_job, nk_args, has_started, has_rendered,
                   error_message, nk_raised, nk_exit_errors, nk_reads, nk_license,
                   nk_marker, nkHistVars, verVars, notNukeVars>>

\* the Frame lines of one read
FrameLines(stdout) == Cardinality({k \in DOMAIN stdout : stdout[k].kind = "frame"})

\* the first block of _on_output without the test of self._has_started
StartingBlockEveryRead(messages) == Append(messages, "Starting")

\* the messages shown after the first block of _on_output
StartingBlock(messages) ==
    IF has_started THEN messages ELSE Append(messages, "Starting")

\* the messages shown after the progress block of _on_output, reached with
\* or without a match
RenderingBlock(messages, progress) ==
    IF progress /\ ~has_rendered THEN Append(messages, "Rendering") ELSE messages

\* the version after the first block of _on_output (not self._has_started)
AfterStarting(v) ==
    IF has_started THEN v
    ELSE [v EXCEPT !.validation_message = "Starting <name> render...",
                   !.progress = JobProgress(nk_job, 0, 1)]

\* the license branch of _on_output without the assignment of validation_error
AfterLicenseUnmarked(v) == v

\* the license branch of _on_output: self.version.validation_error = ...
AfterLicense(v) == [v EXCEPT !.validation_error = "A license for nuke was not found"]

\* the version after the progress block of _on_output, for the Frame line i
AfterFrame(v, i) ==
    [v EXCEPT !.validation_message =
                  IF has_rendered THEN @ ELSE "Rendering <name>...",
              !.progress = JobProgress(nk_job, i, NFrames)]

\* NukeProcess._on_output, the slot of readyReadStandardOutput, called from
\* the processEvents of run's wait loop.  The LicenseError it raises leaves a
\* Qt slot: the binding either lets it unwind run (propagate) or reports and
\* drops it, and the wait loop goes on.
OnOutput ==
    /\ nk_pc = "running"
    /\ nk_reads < MaxReads
    /\ \E stdout \in StdoutReads :
          LET v0 == ver[nk_version]
              v1 == AfterStarting(v0)
              started_now == ~has_started
              i == FrameMatch(stdout)
          IN
          /\ nk_reads' = nk_reads + 1
          /\ nk_marker' = (nk_marker \/ HasLicenseMarker(stdout))
          /\ has_started' = TRUE
          /\ nk_stdout' = nk_stdout + 1
          /\ UNCHANGED nk_stderr
          /\ nk_zero' = nk_zero + (IF started_now THEN 1 ELSE 0)
          /\ nk_frame_lines' = nk_frame_lines + FrameLines(stdout)
          /\ nk_frame_reads' = nk_frame_reads +
                (IF FrameLines(stdout) > 0 /\ ~HasLicenseMarker(stdout) THEN 1 ELSE 0)
          /\ nk_messages' =
                RenderingBlock(StartingBlock(nk_messages),
                               ~HasLicenseMarker(stdout) /\ i # 0)
          /\ nk_progress' = nk_progress +
                (IF ~HasLicenseMarker(stdout) /\ i # 0 THEN 1 ELSE 0)
          /\ IF HasLicenseMarker(stdout)
             THEN /\ ver' = [ver EXCEPT ![nk_version] = AfterLicense(v1)]
                  /\ cb_error' = [cb_error EXCEPT ![nk_version] = @ + 1]
                  /\ cb_message' = [cb_message EXCEPT ![nk_version] =
                                      @ + (IF started_now THEN 1 ELSE 0)]
                  /\ nk_license' = TRUE
                  /\ \E propagate \in BOOLEAN :
                        IF propagate
                        THEN nk_pc' = "raised" /\ nk_raised' = "LicenseError"
                        ELSE UNCHANGED <<nk_pc, nk_raised>>
                  /\ UNCHANGED has_rendered
             ELSE /\ IF i # 0
                     THEN /\ ver' = [ver EXCEPT ![nk_version] = AfterFrame(v1, i)]
                          /\ cb_message' = [cb_message EXCEPT ![nk_version] =
                                              @ + (IF started_now THEN 1 ELSE 0)
                                                + (IF has_rendered THEN 0 ELSE 1)]
                          /\ has_rendered' = TRUE
                     ELSE /\ ver' = [ver EXCEPT ![nk_version] = v1]
                          /\ cb_message' = [cb_message EXCEPT ![nk_version] =
                                              @ + (IF started_now THEN 1 ELSE 0)]
                          /\ UNCHANGED has_rendered
                  /\ UNCHANGED <<cb_error, nk_license, nk_pc, nk_raised>>
    /\ UNCHANGED <<nk_version, nk_job, nk_args, error_message, nk_invocations,
                   nk_exit_errors, notNukeVars>>

\* NukeProcess._on_script_error: self._error_message += stderr
OnScriptError ==
    /\ nk_pc = "running"
    /\ nk_reads < MaxReads
    /\ \E stderr \in StderrReads :
          /\ error_message' = Append(error_message, stderr)
          /\ nk_stderr' = Append(nk_stderr, stderr)
    /\ nk_reads' = nk_reads + 1
    /\ UNCHANGED <<nk_version, nk_job, nk_pc, nk_args, has_started, has_rendered,
                   nk_raised, nk_invocations, nk_exit_errors, nk_license,
                   nk_marker, nk_messages, nk_stdout, nk_zero, nk_frame_reads,
                   nk_frame_lines, nk_progress, verVars, notNukeVars>>

\* reset() without the clearing of the error buffer
reset_error_message_kept(message) == message

\* reset(): self._error_message = ""
reset_error_message(message) == << >>

\* NukeProcess.run after its wait loop, the renderer having exited: return,
\* raise Exception(self._error_message), or strip --timecode-ref, reset() and
\* run again (the recursive call starts the process and waits in its own loop)
NukeExit ==
    /\ nk_pc = "running"
    /\ nk_exit_errors' = Append(nk_exit_errors, error_message)
    /\ IF error_message # << >>
       THEN IF MentionsTimecode(error_message) /\ Contains(nk_args, "--timecode-ref")
            THEN /\ nk_args' = StripTimecodeRef(nk_args)
                 \* reset()
                 /\ has_started' = FALSE
                 /\ has_rendered' = FALSE
                 /\ ver' = [ver EXCEPT ![nk_version].progress = JobProgress(nk_job, 0, 1)]
                 /\ error_message' = reset_error_message(error_message)
                 \* self.run(nuke_path, new_args)
                 /\ nk_invocations' = Append(nk_invocations, StripTimecodeRef(nk_args))
                 /\ nk_messages' = << >>
                 /\ nk_stdout' = 0
                 /\ nk_zero' = 0
                 /\ nk_frame_reads' = 0
                 /\ nk_frame_lines' = 0
                 /\ nk_progress' = 0
                 /\ nk_stderr' = << >>
                 /\ UNCHANGED <<nk_pc, nk_raised>>
            ELSE /\ nk_pc' = "raised"
                 /\ nk_raised' = "Exception"
                 /\ UNCHANGED <<nk_args, has_started, has_rendered, ver,
                                error_message, nk_invocations, nkHistVars>>
       ELSE /\ nk_pc' = "returned"
            /\ UNCHANGED <<nk_args, has_started, has_rendered, ver, error_message,
                           nk_raised, nk_invocations, nkHistVars>>
    /\ UNCHANGED <<nk_version, nk_job, nk_reads, nk_license, nk_marker, cb_error,
                   cb_message, notNukeVars>>

\* the handlers of deliver_version for an exception leaving a job
DeliverVersionExcept ==
    /\ nk_pc = "raised"
    /\ nk_pc' = "caught"
    /\ ver' = [ver EXCEPT ![nk_version].validation_error =
                 IF nk_raised = "LicenseError"
                 THEN "A Nuke license error occurred!"
                 ELSE "An error occurred while making the delivery, please check logs!"]
    /\ cb_error' = [cb_error EXCEPT ![nk_version] = @ + 1]
    /\ UNCHANGED <<nk_version, nk_job, nk_args, has_started, has_rendered,
                   error_message, nk_raised, nk_invocations, nk_exit_errors,
                   nk_reads, nk_license, nk_marker, nkHistVars, cb_message,
                   notNukeVars>>

(***************************************************************************)
(* The validation engine: validate_all_versions, validate_fields,          *)
(* validate_all_frames_exist.                                              *)
(***************************************************************************)
\* a frame field: an integer, or None
NoFrame == [none |-> TRUE, n |-> 0]
Frame(n) == [none |-> FALSE, n |-> n]

\* a Version as loaded, with the frames of its sequence that have a file and
\* the version number handed to Version() (-1 without a published file)
GoodVersion ==
    [first_frame |-> Frame(1), last_frame |-> Frame(MaxFrame), fps |-> "25",
     path_to_movie |-> "movie_on_disk.mov", sequence_path |-> "seq.%04d.exr",
     deliver_sequence |-> TRUE, version_number |-> 3, files |-> 1..MaxFrame,
     published_file_version |-> 3]

\* the versions of the batches validated: every set of frame files for a
\* version that is otherwise in order, and one version per field defect
VersionInputs ==
    {[GoodVersion EXCEPT !.files = f] : f \in SUBSET (1..MaxFrame)}
    \cup {[GoodVersion EXCEPT !.first_frame = x] : x \in {NoFrame, Frame(-1), Frame(MaxFrame)}}
    \cup {[GoodVersion EXCEPT !.last_frame = x] : x \in {NoFrame, Frame(-1)}}
    \cup {[GoodVersion EXCEPT !.fps = x] : x \in {None, ""}}
    \cup {[GoodVersion EXCEPT !.path_to_movie = x] : x \in {None, "movie_missing.mov"}}
    \cup {[GoodVersion EXCEPT !.sequence_path = x] : x \in {None, "seq.mov", "seq.exr"}}
    \cup {[GoodVersion EXCEPT !.deliver_sequence = FALSE, !.sequence_path = x,
                              !.files = {}] : x \in {None, "seq.%04d.exr"}}
    \cup {[GoodVersion EXCEPT !.published_file_version = n,
                              !.version_number = NewVersion(0, n).version_number] :
             n \in {0 - 1, 0}}
    \cup {[GoodVersion EXCEPT !.first_frame = NoFrame, !.fps = ""]}

\* x is None or x < 0, for a frame field
NoneOrNegative(x) == x.none \/ x.n < 0

\* Path(p).is_file() for the preview movie
MovieIsFile(p) == p = "movie_on_disk.mov"

\* whether version.sequence_path % frame formats: None, and a path without
\* one conversion, raise TypeError
Formats(p) == p = "seq.%04d.exr"

\* DeliveryModel.validate_fields
validate_fields(v) ==
    (IF NoneOrNegative(v.first_frame)
     THEN << "The sg_first_frame field on this version is empty or invalid." >>
     ELSE << >>)
    \o (IF NoneOrNegative(v.last_frame)
        THEN << "The sg_last_frame field on this version is empty or invalid." >>
        ELSE << >>)
    \o (IF v.fps = None \/ v.fps = ""
        THEN << "The sg_uploaded_movie_frame_rate field on this version is empty." >>
        ELSE << >>)
    \o (IF v.path_to_movie = None \/ v.path_to_movie = ""
        THEN << "The path_to_movie field on this version is empty." >>
        ELSE IF ~MovieIsFile(v.path_to_movie)
        THEN << "The path_to_movie field on this version points to a nonexistent file." >>
        ELSE << >>)
    \o (IF v.deliver_sequence
        THEN IF v.sequence_path = None \/ v.sequence_path = ""
             THEN << "The published file(path) is empty." >>
             ELSE (IF v.sequence_path = "seq.mov"
                   THEN << "Linked version file on this version is a reference MOV, not an EXR sequence." >>
                   ELSE << >>)
                  \o (IF v.version_number = -1
                      THEN << "The linked published file doesn't have a version." >>
                      ELSE << >>)
        ELSE << >>)

RECURSIVE SweepFramesInclusive(_, _, _)
\* the loop over range(first_frame, last_frame + 1)
SweepFramesInclusive(v, frame, errors) ==
    IF frame > v.last_frame.n THEN errors
    ELSE IF ~Formats(v.sequence_path)
    THEN << "Could not format filepath. Are the EXRs correctly linked?" >>
    ELSE SweepFramesInclusive(v, frame + 1,
             IF frame \in v.files THEN errors
             ELSE Append(errors, "Can't find frame " \o ToString(frame) \o "."))

RECURSIVE SweepFrames(_, _, _)
\* the loop of validate_all_frames_exist from frame on, errors collected so far
SweepFrames(v, frame, errors) ==
    IF frame >= v.last_frame.n THEN errors
    ELSE IF ~Formats(v.sequence_path)
    THEN << "Could not format filepath. Are the EXRs correctly linked?" >>
    ELSE SweepFrames(v, frame + 1,
             IF frame \in v.files THEN errors
             ELSE Append(errors, "Can't find frame " \o ToString(frame) \o "."))

\* DeliveryModel.validate_all_frames_exist: it returns its diagnostics
validate_all_frames_exist(v) ==
    IF NoneOrNegative(v.first_frame) \/ NoneOrNegative(v.last_frame)
    THEN << "Shot version is missing frame range data (sg_first_frame, sg_last_frame)." >>
    ELSE SweepFrames(v, v.first_frame.n, << >>)

RECURSIVE JoinLines(_)
\* "\n".join(errors)
JoinLines(errors) ==
    IF errors = << >> THEN ""
    ELSE IF Len(errors) = 1 THEN errors[1]
    ELSE errors[1] \o "\n" \o JoinLines(Tail(errors))

ValIdle ==
    /\ val_in = [v \in VersionIds |-> GoodVersion]
    /\ val_i = 1
    /\ val_success = TRUE
    /\ val_pc = "running"
    /\ val_errors = [v \in VersionIds |-> << >>]
    /\ val_sweep = [v \in VersionIds |-> << >>]

\* validate_all_versions is entered with freshly loaded versions
ValInit ==
    /\ val_in \in [VersionIds -> VersionInputs]
    /\ val_i = 1
    /\ val_success = TRUE
    /\ val_pc = "running"
    /\ val_errors = [v \in VersionIds |-> << >>]
    /\ val_sweep = [v \in VersionIds |-> << >>]
    /\ ver = [v \in VersionIds |-> VerFresh]
    /\ cb_error = [v \in VersionIds |-> 0]
    /\ cb_message = [v \in VersionIds |-> 0]

\* the errors of one iteration of validate_all_versions: those of
\* validate_fields; validate_all_frames_exist is called for a version with
\* deliver_sequence, but it returns its list (it raises no ValidationError)
\* and the call statement drops the value
IterationErrors(v) == validate_fields(v)

\* a failed version leaving success as it was
SuccessAfterFailureKept(success) == success

\* success = False in the branch of a version with errors
SuccessAfterFailure(success) == FALSE

\* one iteration of the loop over the versions in validate_all_versions
ValidateVersion ==
    /\ val_pc = "running"
    /\ val_i <= NVersions
    /\ LET v == val_in[val_i]
           errors == IterationErrors(v)
       IN /\ val_errors' = [val_errors EXCEPT ![val_i] = errors]
          /\ val_sweep' = [val_sweep EXCEPT ![val_i] =
                             IF v.deliver_sequence THEN validate_all_frames_exist(v)
                             ELSE << >>]
          /\ IF Len(errors) = 0
             THEN /\ ver' = [ver EXCEPT ![val_i].validation_message =
                                "Initial validation checks passed!"]
                  /\ cb_message' = [cb_message EXCEPT ![val_i] = @ + 1]
                  /\ UNCHANGED <<val_success, cb_error>>
             ELSE /\ val_success' = SuccessAfterFailure(val_success)
                  /\ ver' = [ver EXCEPT ![val_i].validation_error = JoinLines(errors)]
                  /\ cb_error' = [cb_error EXCEPT ![val_i] = @ + 1]
                  /\ UNCHANGED cb_message
    /\ val_i' = val_i + 1
    /\ UNCHANGED <<val_in, val_pc, notValVars>>

\* return success
ValidateReturn ==
    /\ val_pc = "running"
    /\ val_i > NVersions
    /\ val_pc' = "returned"
    /\ UNCHANGED <<val_in, val_i, val_success, val_errors, val_sweep, verVars,
                   notValVars>>

(***************************************************************************)
(* The rerender decision and the sequence delivery: _deliver_sequence.     *)
(* A str is a sequence of one-character strings, so that lower(), replace() *)
(* and the in operator work on its characters.                             *)
(***************************************************************************)
UpperCase == << "A", "B", "C", "D", "E", "F", "G", "H", "I", "J", "K", "L", "M",
                "N", "O", "P", "Q", "R", "S", "T", "U", "V", "W", "X", "Y", "Z" >>
LowerCase == << "a", "b", "c", "d", "e", "f", "g", "h", "i", "j", "k", "l", "m",
                "n", "o", "p", "q", "r", "s", "t", "u", "v", "w", "x", "y", "z" >>

\* str.lower()
lower(s) ==
    [i \in DOMAIN s |->
        IF \E k \in DOMAIN UpperCase : UpperCase[k] = s[i]
        THEN LowerCase[CHOOSE k \in DOMAIN UpperCase : UpperCase[k] = s[i]]
        ELSE s[i]]

RECURSIVE replace(_, _, _)
\* str.replace(old, new), for a non-empty old
replace(s, old, new) ==
    IF Len(s) < Len(old) THEN s
    ELSE IF SubSeq(s, 1, Len(old)) = old
    THEN new \o replace(SubSeq(s, Len(old) + 1, Len(s)), old, new)
    ELSE << Head(s) >> \o replace(Tail(s), old, new)

\* a in b, for two str
In(a, b) == \E i \in 0..(Len(b) - Len(a)) : SubSeq(b, i + 1, i + Len(a)) = a

\* "_COMPRESSION"
COMPRESSION_SUFFIX == << "_", "C", "O", "M", "P", "R", "E", "S", "S", "I", "O", "N" >>

\* the compression attribute of an EXR header
CompressionTags ==
    {<< "D", "W", "A", "A" >> \o COMPRESSION_SUFFIX,
     << "Z", "I", "P" >> \o COMPRESSION_SUFFIX}

\* what EXR_COMPRESSION.get(tag, "unknown") may return: the table is imported
\* from models.util, any friendly name is allowed for
FriendlyNames ==
    {<< "u", "n", "k", "n", "o", "w", "n" >>, << "D", "W", "A", "A" >>,
     << "Z", "i", "p" >>}

\* what read_exr_header returns for the first frame: whether it holds
\* "compression" and "channels", their values, and the friendly name of the
\* compression
Metadata ==
    {[has_compression |-> TRUE, compression |-> t, friendly |-> f,
      has_channels |-> TRUE, channels |-> c] :
        t \in CompressionTags, f \in FriendlyNames,
        c \in {{"R", "G", "B"}, {"R", "G", "B", "A"}}}
    \cup {[has_compression |-> FALSE, compression |-> << >>,
           friendly |-> << "u", "n", "k", "n", "o", "w", "n" >>,
           has_channels |-> hc, channels |-> IF hc THEN {"R", "G", "B", "A"} ELSE {}] :
             hc \in BOOLEAN}

\* a settings dict: a set of <<key, value>> items
Keys(settings) == {item[1] : item \in settings}
Get(settings, key) == (CHOOSE item \in settings : item[1] = key)[2]

\* SequenceOutput, and None for no output
SequenceOutput(name, extension, status, settings) ==
    [matched |-> TRUE, name |-> name, extension |-> extension, status |-> status,
     settings |-> settings]
NoOutput ==
    [matched |-> FALSE, name |-> "", extension |-> "", status |-> "", settings |-> {}]

\* settings.delivery_sequence_outputs: a compression-only policy in lower and
\* in upper case, a policy with two settings, a policy without compression,
\* and a policy whose status an earlier one has
delivery_sequence_outputs ==
    << SequenceOutput("DWAA", "exr", "dlvr_dwaa", {<< "compression", << "d", "w", "a", "a" >> >>}),
       SequenceOutput("ZIP", "exr", "dlvr_zip", {<< "compression", << "Z", "I", "P" >> >>}),
       SequenceOutput("DWAA half", "exr", "dlvr_half",
                      {<< "compression", << "d", "w", "a", "a" >> >>,
                       << "data_type", << "1", "6" >> >>}),
       SequenceOutput("TIFF", "tiff", "dlvr_tiff", {<< "data_type", << "1", "6" >> >>}),
       SequenceOutput("late", "exr", "dlvr_dwaa", {<< "data_type", << "3", "2" >> >>}) >>

\* version.sequence_output_status: "rev" is the status of no output
SequenceOutputStatuses == {"dlvr_dwaa", "dlvr_zip", "dlvr_half", "dlvr_tiff", "rev"}

\* next((output for output in outputs if output.status == status), None)
MatchOutput(outputs, status) ==
    IF \E i \in DOMAIN outputs : outputs[i].status = status
    THEN outputs[CHOOSE i \in DOMAIN outputs :
                   /\ outputs[i].status = status
                   /\ \A j \in DOMAIN outputs : outputs[j].status = status => i <= j]
    ELSE NoOutput

\* SequenceOutput.to_cli_string: {**self.settings, "file_type": self.extension}
to_cli_string(o) ==
    {item \in o.settings : item[1] # "file_type"} \cup {<< "file_type", o.extension >>}

\* output.settings.keys() == ["compression"]: a dict_keys view compared with a
\* list; the two are of different types and never compare equal
KeysEqualList(settings, list) == FALSE

\* the condition of the inner if: the requested compression is in the header's
\* tag without its suffix, or in its friendly name
CompressionMatches(o, metadata) ==
    \/ In(lower(Get(o.settings, "compression")),
          lower(replace(metadata.compression, COMPRESSION_SUFFIX, << >>)))
    \/ In(lower(Get(o.settings, "compression")), lower(metadata.friendly))

\* the decision with the else branch of "if output.settings.keys() == ..." left out
PolicyRerenderNoElse(o, metadata) ==
    /\ o.matched
    /\ KeysEqualList(o.settings, << "compression" >>)
    /\ metadata.has_compression
    /\ ~CompressionMatches(o, metadata)

\* should_rerender after "if output is not None: ..."
PolicyRerender(o, metadata) ==
    IF ~o.matched THEN FALSE
    ELSE IF KeysEqualList(o.settings, << "compression" >>)
    THEN metadata.has_compression /\ ~CompressionMatches(o, metadata)
    ELSE TRUE

\* the condition of "if self.settings.remove_alpha_from_sequence and ..."
AlphaRerender(remove_alpha_from_sequence, metadata) ==
    /\ remove_alpha_from_sequence
    /\ metadata.has_channels
    /\ "A" \in metadata.channels

\* the inputs of one _deliver_sequence call
SequenceInputs ==
    [sequence_output_status : SequenceOutputStatuses,
     metadata : Metadata,
     remove_alpha_from_sequence : BOOLEAN,
     add_slate_to_sequence : BOOLEAN,
     frames_have_slate : BOOLEAN,
     first_frame : {1},
     last_frame : 1..MaxFrame,
     can_link : BOOLEAN]

SeqIdle ==
    /\ sq_in = [sequence_output_status |-> "rev",
                metadata |-> CHOOSE m \in Metadata : ~m.has_compression /\ ~m.has_channels,
                remove_alpha_from_sequence |-> FALSE,
                add_slate_to_sequence |-> FALSE,
                frames_have_slate |-> FALSE,
                first_frame |-> 1, last_frame |-> 1, can_link |-> FALSE]
    /\ sq_pc = "done"
    /\ output = NoOutput
    /\ should_rerender = FALSE
    /\ sq_args = << >>
    /\ sq_cli = {}
    /\ sq_runs = 0
    /\ sq_frame = 0
    /\ sq_linked = {}
    /\ sq_messages = << >>
    /\ sq_progress = << >>

\* _deliver_sequence is entered
SeqInit ==
    /\ sq_in \in SequenceInputs
    /\ sq_pc = "start"
    /\ output = NoOutput
    /\ should_rerender = FALSE
    /\ sq_args = << >>
    /\ sq_cli = {}
    /\ sq_runs = 0
    /\ sq_frame = 0
    /\ sq_linked = {}
    /\ sq_messages = << >>
    /\ sq_progress = << >>

\* first_frame, plus one if the frames have a slate
FirstDelivered(in) == in.first_frame + (IF in.frames_have_slate THEN 1 ELSE 0)

\* the args of the frame render
SequenceRenderArgs(in, o, rerender) ==
    << "-t", "plate_path", ToString(FirstDelivered(in)), ToString(in.last_frame),
       "publish_file", "delivery_sequence_path" >>
    \o (IF o.matched THEN << "--write-settings", "cli_string" >> ELSE << >>)
    \o (IF in.add_slate_to_sequence
        THEN << "--logo-path", "logo_path", "-odt", "sequence_colorspace",
                "--slate-data", "slate_data", "--font-path", "font_path",
                "--font-bold-path", "font_bold_path" >>
             \o (IF ~rerender THEN << "--slate-only" >> ELSE << >>)
        ELSE << >>)

\* the policy is matched, the header read, should_rerender decided
SeqDecide ==
    /\ sq_pc = "start"
    /\ LET o == MatchOutput(delivery_sequence_outputs, sq_in.sequence_output_status)
       IN /\ output' = o
          /\ should_rerender' =
                (PolicyRerender(o, sq_in.metadata)
                 \/ AlphaRerender(sq_in.remove_alpha_from_sequence, sq_in.metadata))
    /\ sq_pc' = "decided"
    /\ UNCHANGED <<sq_in, sq_args, sq_cli, sq_runs, sq_frame, sq_linked, sq_messages,
                   sq_progress, notSeqVars>>

\* if should_rerender or self.settings.add_slate_to_sequence: the renderer is
\* run; process.run returns, or raises
SeqRender ==
    /\ sq_pc = "decided"
    /\ should_rerender \/ sq_in.add_slate_to_sequence
    /\ sq_args' = SequenceRenderArgs(sq_in, output, should_rerender)
    /\ sq_cli' = IF output.matched THEN to_cli_string(output) ELSE {}
    /\ sq_messages' = IF output.matched
                      THEN Append(sq_messages, "Rerendering frames for "
                                  \o output.status \o " - " \o output.name \o "...")
                      ELSE sq_messages
    /\ sq_runs' = sq_runs + 1
    /\ \E raised \in BOOLEAN : sq_pc' = IF raised THEN "raised" ELSE "rendered"
    /\ UNCHANGED <<sq_in, output, should_rerender, sq_frame, sq_linked, sq_progress,
                   notSeqVars>>

\* if not should_rerender: the head of the link/copy path
SeqLinkStart ==
    /\ \/ sq_pc = "rendered"
       \/ sq_pc = "decided" /\ ~(should_rerender \/ sq_in.add_slate_to_sequence)
    /\ ~should_rerender
    /\ sq_messages' = Append(sq_messages, "Delivering frames...")
    /\ sq_frame' = FirstDelivered(sq_in)
    /\ sq_pc' = "linking"
    /\ UNCHANGED <<sq_in, output, should_rerender, sq_args, sq_cli, sq_runs, sq_linked,
                   sq_progress, notSeqVars>>

\* one iteration of "for frame in range(first_frame, version.last_frame + 1)":
\* the frame is linked or copied, then the progress is computed, a division
\* by zero when first_frame is last_frame
SeqLinkFrame ==
    /\ sq_pc = "linking"
    /\ sq_frame <= sq_in.last_frame
    /\ sq_linked' = sq_linked \cup {sq_frame}
    /\ IF sq_in.last_frame - FirstDelivered(sq_in) = 0
       THEN /\ sq_pc' = "raised"
            /\ UNCHANGED <<sq_frame, sq_progress>>
       ELSE /\ sq_progress' = Append(sq_progress,
                                  << sq_frame - FirstDelivered(sq_in),
                                     sq_in.last_frame - FirstDelivered(sq_in) >>)
            /\ sq_frame' = sq_frame + 1
            /\ UNCHANGED sq_pc
    /\ UNCHANGED <<sq_in, output, should_rerender, sq_args, sq_cli, sq_runs,
                   sq_messages, notSeqVars>>

\* _deliver_sequence returns
SeqReturn ==
    /\ \/ sq_pc = "linking" /\ sq_frame > sq_in.last_frame
       \/ sq_pc = "rendered" /\ should_rerender
    /\ sq_pc' = "done"
    /\ UNCHANGED <<sq_in, output, should_rerender, sq_args, sq_cli, sq_runs, sq_frame,
                   sq_linked, sq_messages, sq_progress, notSeqVars>>

(***************************************************************************)
(* The export run: ExportShotsThread.run, deliver_version as run() sees    *)
(* it, and create_csv.                                                     *)
(***************************************************************************)
\* a shot with an episode, an asset
Shot(id, episode) == [type |-> "Shot", id |-> id, episode |-> episode]
Asset(id) == [type |-> "Asset", id |-> id, episode |-> None]

\* the sets of entities loaded for delivery, each entity with one version:
\* shots of two episodes and assets; shots of one episode; shots without an
\* episode and assets
Batches == {"episodes", "one_episode", "no_episode"}

\* the entity of a version of the loaded set
EntityOf(v) ==
    IF ex_batch = "episodes"
    THEN IF v % 3 = 1 THEN Shot(v, "ep1")
         ELSE IF v % 3 = 2 THEN Shot(v, "ep2")
         ELSE Asset(v)
    ELSE IF ex_batch = "one_episode" THEN Shot(v, "ep1")
    ELSE IF v % 2 = 1 THEN Shot(v, None)
    ELSE Asset(v)

\* the elements of a set of integers in ascending order
SortedSeq(S) ==
    CHOOSE q \in [1..Cardinality(S) -> S] :
        \A i, j \in 1..Cardinality(S) : i < j => q[i] < q[j]

\* the versions in the order of the loops over
\* shots_to_deliver + assets_to_deliver and entity.get_versions()
DeliveryList ==
    SortedSeq({v \in VersionIds : EntityOf(v).type = "Shot"})
    \o SortedSeq({v \in VersionIds : EntityOf(v).type = "Asset"})

\* Deliverables: nothing, the previews, or the previews and the sequence
Deliverables ==
    {d \in [deliver_preview : BOOLEAN, deliver_sequence : BOOLEAN] :
        d.deliver_sequence => d.deliver_preview}

\* user_settings.delivery_preview_outputs, by extension
delivery_preview_outputs == << "mov" >>

\* the keys of user_settings.csv_fields
CsvHeader == << "Version", "File", "Delivery" >>

\* the folder delivery_folder_template.apply_fields gives for an episode and a
\* delivery version: the episode is part of it only with episode folders
DeliveryFolder(episode, n) ==
    [episode |-> IF episode_folders THEN episode ELSE None, delivery_version |-> n,
     delivery_date |-> "today"]

\* the delivery version of the default bucket for every entity
DeliveryVersionOfDefault(entity) == episode_delivery_versions[None]

\* the delivery version run() and create_csv pick for an entity
DeliveryVersionOf(entity) ==
    IF entity.type = "Shot" THEN episode_delivery_versions[entity.episode]
    ELSE episode_delivery_versions[None]

\* the delivery folder of a version's files
VersionFolder(v) == DeliveryFolder(EntityOf(v).episode, DeliveryVersionOf(EntityOf(v)))

\* the list to_deliver of create_csv: the sequence, then one preview per output
ToDeliver(v, d) ==
    (IF d.deliver_sequence
     THEN << [folder |-> VersionFolder(v), version |-> v, kind |-> "sequence"] >>
     ELSE << >>)
    \o (IF d.deliver_preview
        THEN [i \in DOMAIN delivery_preview_outputs |->
                [folder |-> VersionFolder(v), version |-> v,
                 kind |-> delivery_preview_outputs[i]]]
        ELSE << >>)

\* the cells the csv_fields templates resolve to for a delivered file
Row(artifact) ==
    << ToString(artifact.version), artifact.kind,
       ToString(artifact.folder.delivery_version) >>

\* the exception classes deliver_version meets
Faults == {"FileExistsError", "LicenseError", "Exception"}

\* isinstance(exc, cls)
IsInstance(exc, cls) == exc = cls \/ cls = "Exception"

\* the handlers of deliver_version without "except Exception"
ExceptHandlersNamedOnly == << "FileExistsError", "LicenseError" >>

\* the except clauses of deliver_version, in order
ExceptHandlers == << "FileExistsError", "LicenseError", "Exception" >>

\* whether a clause takes the exception
Caught(exc) == \E i \in DOMAIN ExceptHandlers : IsInstance(exc, ExceptHandlers[i])

\* the first clause that takes the exception
HandlerOf(exc) ==
    ExceptHandlers[CHOOSE i \in DOMAIN ExceptHandlers :
        /\ IsInstance(exc, ExceptHandlers[i])
        /\ \A j \in DOMAIN ExceptHandlers : IsInstance(exc, ExceptHandlers[j]) => i <= j]

\* version.validation_error as the clause sets it
ExceptMessage(cls) ==
    IF cls = "FileExistsError"
    THEN "Files already exist. Has this shot been exported before?"
    ELSE IF cls = "LicenseError"
    THEN "A Nuke license error occurred!"
    ELSE "An error occurred while making the delivery, please check logs!"

\* the step in which deliver_version ends: it returns; the first render
\* raises LicenseError; os.link raises FileExistsError in the sequence job;
\* another exception is raised after the jobs, at the latest by the update of
\* the Version ("version_update": attachment, LUT or that update call), or
\* by the update of the Shot that follows it ("shot_update")
EndSteps(outcome, entity, d) ==
    IF outcome = "ok" THEN {"returned"}
    ELSE IF outcome = "LicenseError" THEN {"render"}
    ELSE IF outcome = "FileExistsError" THEN {"link"}
    ELSE {"version_update"} \cup
         (IF d.deliver_sequence /\ entity.type = "Shot" THEN {"shot_update"} ELSE {})

\* the shotgrid_connection.update calls of deliver_version that went through
\* when it ends in the given step
StatusUpdates(v, entity, d, step) ==
    (IF step \in {"shot_update", "returned"}
     THEN {[type |-> "Version", id |-> v,
            status |-> IF ~d.deliver_sequence THEN version_preview_delivered_status
                       ELSE version_delivered_status]}
     ELSE {})
    \cup (IF step = "returned" /\ d.deliver_sequence /\ entity.type = "Shot"
         THEN {[type |-> "Shot", id |-> entity.id, status |-> shot_delivered_status]}
         ELSE {})

\* the files deliver_version has written when it ends: all of them when it
\* returns; the previews when os.link raises FileExistsError in the sequence
\* job; none when the first render raises LicenseError; all when a later step
\* (attachment, LUT, database update) raises
Produced(v, d, outcome) ==
    LET all == {ToDeliver(v, d)[i] : i \in DOMAIN ToDeliver(v, d)}
    IN IF outcome = "LicenseError" THEN {}
       ELSE IF outcome = "FileExistsError" THEN {a \in all : a.kind # "sequence"}
       ELSE all

\* the destination root before the first run: missing; empty; holding an
\* earlier delivery of today with its manifest; the same with a manifest line
\* that has fewer cells than the header; holding today's delivery, a delivery
\* of an earlier day with a higher number, a folder that does not parse
\* against the delivery folder template, a file, and a manifest written with
\* other csv_fields
EarlierFolder == [episode |-> None, delivery_version |-> 1, delivery_date |-> "today"]
OlderFolder == [episode |-> None, delivery_version |-> 2, delivery_date |-> "earlier"]
RootItems == {[name |-> "notes", is_file |-> FALSE], [name |-> "readme.txt", is_file |-> TRUE]}
EarlierHeader == << "Version", "Notes", "File" >>
EarlierFile == [folder |-> EarlierFolder, version |-> 0, kind |-> "mov"]
DestinationRoots ==
    {[root |-> FALSE, folders |-> {}, items |-> {}, files |-> {}, csv |-> {}],
     [root |-> TRUE, folders |-> {}, items |-> {}, files |-> {}, csv |-> {}],
     [root |-> TRUE, folders |-> {EarlierFolder}, items |-> {}, files |-> {EarlierFile},
      csv |-> {[folder |-> EarlierFolder, header |-> CsvHeader,
                rows |-> << Row(EarlierFile) >>]}],
     [root |-> TRUE, folders |-> {EarlierFolder}, items |-> {}, files |-> {EarlierFile},
      csv |-> {[folder |-> EarlierFolder, header |-> CsvHeader,
                rows |-> << << "0" >> >>]}],
     [root |-> TRUE, folders |-> {EarlierFolder, OlderFolder}, items |-> RootItems,
      files |-> {EarlierFile},
      csv |-> {[folder |-> EarlierFolder, header |-> EarlierHeader,
                rows |-> << << "0", "seen by client", "mov" >> >>]}]}

ExIdle ==
    /\ ex_pc = "idle"
    /\ ex_run = "first"
    /\ ex_crash = "none"
    /\ user_settings = [delivery_version |-> 0]
    /\ episode_folders = FALSE
    /\ get_deliverables = [v \in VersionIds |->
                             [deliver_preview |-> FALSE, deliver_sequence |-> FALSE]]
    /\ version_deliverables = {}
    /\ episodes = << >>
    /\ episode_delivery_versions = [e \in {None, "ep1", "ep2"} |-> 0]
    /\ ex_i = 1
    /\ fs_root = FALSE
    /\ fs_folders = {}
    /\ fs_items = {}
    /\ fs_files = {}
    /\ fs_csv = {}
    /\ continuous_versioning = FALSE
    /\ ex_batch = "episodes"
    /\ finish_calls = 0
    /\ ex_attempted = {}
    /\ ex_outcome = [v \in VersionIds |-> "none"]
    /\ csv_written = {}
    /\ csv_before = {}
    /\ sg_status = {}
    /\ ex_step = [v \in VersionIds |-> "none"]
    /\ ex_scans = 0

\* run() is entered by a started ExportShotsThread
ExInit ==
    /\ ex_pc = "collect"
    /\ ex_run = "first"
    /\ ex_crash = "none"
    /\ user_settings \in [delivery_version : {0, 1}]
    /\ episode_folders \in BOOLEAN
    /\ continuous_versioning \in BOOLEAN
    /\ ex_batch \in Batches
    /\ get_deliverables \in [VersionIds -> Deliverables]
    /\ version_deliverables = {}
    /\ episodes = << >>
    /\ episode_delivery_versions = [e \in {None, "ep1", "ep2"} |-> 0]
    /\ ex_i = 1
    /\ \E d \in DestinationRoots :
          /\ fs_root = d.root
          /\ fs_folders = d.folders
          /\ fs_items = d.items
          /\ fs_files = d.files
          /\ fs_csv = d.csv
    /\ finish_calls = 0
    /\ ex_attempted = {}
    /\ ex_outcome = [v \in VersionIds |-> "none"]
    /\ csv_written = {}
    /\ csv_before = fs_csv
    /\ sg_status = {}
    /\ ex_step = [v \in VersionIds |-> "none"]
    /\ ex_scans = 0
    /\ ver = [v \in VersionIds |-> VerFresh]
    /\ cb_error = [v \in VersionIds |-> 0]
    /\ cb_message = [v \in VersionIds |-> 0]

RECURSIVE CollectEpisodes(_, _)
\* the list episodes after the loop over the versions from position i on
CollectEpisodes(i, eps) ==
    IF i > Len(DeliveryList) THEN eps
    ELSE LET v == DeliveryList[i]
             d == get_deliverables[v]
             entity == EntityOf(v)
         IN CollectEpisodes(i + 1,
                IF /\ d.deliver_preview \/ d.deliver_sequence
                   /\ entity.type = "Shot"
                   /\ \A k \in DOMAIN eps : eps[k] # entity.episode
                THEN Append(eps, entity.episode)
                ELSE eps)

\* the largest element of a non-empty set of numbers
Max(S) == CHOOSE x \in S : \A y \in S : y <= x

\* the episodes of the folder loop and of the manifest loop
FolderLoop == IF episode_folders THEN episodes ELSE << None >>

\* run() ends by an exception raised in the named step
Crash(step) ==
    /\ ex_pc' = "crashed"
    /\ ex_crash' = step

\* the first loop of run(): the deliverables are asked for, the episodes
\* collected
ExCollect ==
    /\ ex_pc = "collect"
    /\ version_deliverables' =
          {v \in VersionIds : get_deliverables[v].deliver_preview
                               \/ get_deliverables[v].deliver_sequence}
    /\ episodes' = CollectEpisodes(1, << None >>)
    /\ ex_pc' = "number"
    /\ ex_i' = 1
    /\ UNCHANGED <<ex_run, ex_crash, user_settings, episode_folders, get_deliverables,
                   episode_delivery_versions, fs_root, fs_folders, fs_files, fs_csv,
                   finish_calls, ex_attempted, ex_outcome, csv_written, csv_before,
                   verVars, exDbVars, exScanVars, notExVars>>

\* the parent of the delivery folder of an episode: with "Episode" among the
\* keys of the template every episode has a root of its own
BasePath(episode) == IF episode_folders THEN episode ELSE None

\* base_path.iterdir(): the delivery folders and the other items of the root
RootListing(episode) ==
    {[is_file |-> FALSE, parses |-> TRUE, fields |-> f] :
        f \in {g \in fs_folders : g.episode = BasePath(episode)}}
    \cup {[is_file |-> i.is_file, parses |-> FALSE, fields |-> EarlierFolder] :
             i \in fs_items}

\* the list fields after the scan: a file is passed over, and so is a folder
\* for which get_fields raises
ScannedFields(episode) ==
    {item.fields : item \in {i \in RootListing(episode) : ~i.is_file /\ i.parses}}

\* the list delivered_versions without the filter on the date
DeliveredVersionsOfAnyDate(fields) == {f.delivery_version : f \in fields}

\* the list delivered_versions: with continuous versioning every folder
\* counts, without it the folders dated today
DeliveredVersions(fields) ==
    {f.delivery_version :
        f \in {g \in fields : continuous_versioning \/ g.delivery_date = "today"}}

\* one iteration of "for episode in episodes": with no delivery version given
\* the destination root is scanned (iterdir raises when it does not exist) and
\* the number after the largest one found is taken
ExNumber ==
    /\ ex_pc = "number"
    /\ LET episode == episodes[ex_i]
       IN IF user_settings.delivery_version = 0 /\ ~fs_root
          THEN /\ Crash("iterdir")
               /\ UNCHANGED <<episode_delivery_versions, ex_i, ex_scans>>
          ELSE /\ episode_delivery_versions' =
                     [episode_delivery_versions EXCEPT ![episode] =
                        IF user_settings.delivery_version = 0
                        THEN Max(DeliveredVersions(ScannedFields(episode)) \cup {0}) + 1
                        ELSE user_settings.delivery_version]
               /\ ex_scans' = IF user_settings.delivery_version = 0
                              THEN ex_scans + 1 ELSE ex_scans
               /\ IF ex_i = Len(episodes)
                  THEN ex_pc' = "mkdir" /\ ex_i' = 1
                  ELSE ex_pc' = ex_pc /\ ex_i' = ex_i + 1
               /\ UNCHANGED ex_crash
    /\ UNCHANGED <<ex_run, user_settings, episode_folders, get_deliverables,
                   version_deliverables, episodes, fs_root, fs_folders, fs_files,
                   fs_csv, finish_calls, ex_attempted, ex_outcome, csv_written,
                   csv_before, verVars, exDbVars, continuous_versioning, fs_items,
                   ex_batch, notExVars>>

\* one iteration of the folder loop: delivery_folder.mkdir(parents=True,
\* exist_ok=True)
ExMkdir ==
    /\ ex_pc = "mkdir"
    /\ LET episode == FolderLoop[ex_i]
       IN fs_folders' = fs_folders \cup
             {DeliveryFolder(episode, episode_delivery_versions[episode])}
    /\ fs_root' = TRUE
    /\ IF ex_i = Len(FolderLoop)
       THEN ex_pc' = "deliver" /\ ex_i' = 1
       ELSE ex_pc' = ex_pc /\ ex_i' = ex_i + 1
    /\ UNCHANGED <<ex_run, ex_crash, user_settings, episode_folders, get_deliverables,
                   version_deliverables, episodes, episode_delivery_versions, fs_files,
                   fs_csv, finish_calls, ex_attempted, ex_outcome, csv_written,
                   csv_before, verVars, exDbVars, exScanVars, notExVars>>

\* one iteration of the delivery loop: a version without deliverables is
\* passed over; for the others deliver_version is called, and it returns,
\* or an exception of one of the classes in faults is raised in its try block
ExDeliver(faults) ==
    /\ ex_pc = "deliver"
    /\ LET v == DeliveryList[ex_i]
           d == get_deliverables[v]
       IN IF v \notin version_deliverables
          THEN /\ IF ex_i = Len(DeliveryList)
                  THEN ex_pc' = "csv" /\ ex_i' = 1
                  ELSE ex_pc' = ex_pc /\ ex_i' = ex_i + 1
               /\ UNCHANGED <<ex_crash, fs_files, ex_attempted, ex_outcome, verVars,
                              exDbVars>>
          ELSE \E outcome \in {"ok"} \cup faults :
               \E step \in EndSteps(outcome, EntityOf(v), d) :
               /\ outcome = "FileExistsError" => d.deliver_sequence
               /\ sg_status' = sg_status \cup StatusUpdates(v, EntityOf(v), d, step)
               /\ ex_step' = [ex_step EXCEPT ![v] = step]
               /\ fs_files' = fs_files \cup Produced(v, d, outcome)
               /\ ex_attempted' = ex_attempted \cup {v}
               /\ ex_outcome' = [ex_outcome EXCEPT ![v] = outcome]
               /\ IF outcome = "ok"
                  THEN /\ ver' = [ver EXCEPT ![v].validation_message = "Export finished!"]
                       /\ cb_message' = [cb_message EXCEPT ![v] = @ + 1]
                       /\ UNCHANGED cb_error
                  ELSE IF Caught(outcome)
                  THEN /\ ver' = [ver EXCEPT ![v].validation_error =
                                     ExceptMessage(HandlerOf(outcome))]
                       /\ cb_error' = [cb_error EXCEPT ![v] = @ + 1]
                       /\ UNCHANGED cb_message
                  ELSE UNCHANGED verVars
               /\ IF outcome # "ok" /\ ~Caught(outcome)
                  THEN /\ Crash("deliver_version")
                       /\ UNCHANGED ex_i
                  ELSE /\ IF ex_i = Len(DeliveryList)
                          THEN ex_pc' = "csv" /\ ex_i' = 1
                          ELSE ex_pc' = ex_pc /\ ex_i' = ex_i + 1
                       /\ UNCHANGED ex_crash
    /\ UNCHANGED <<ex_run, user_settings, episode_folders, get_deliverables,
                   version_deliverables, episodes, episode_delivery_versions, fs_root,
                   fs_folders, fs_csv, finish_calls, csv_written, csv_before,
                   exScanVars, notExVars>>

\* the manifest of a folder
HasManifest(folder) == \E m \in fs_csv : m.folder = folder
ManifestAt(folder) == CHOOSE m \in fs_csv : m.folder = folder

\* reading an existing row raises IndexError: row[j] for a j the row lacks
ShortRow(header, row) == Len(row) < Len(header)

\* an existing row under the header written now: the cell of the last old
\* column of the same name, an empty cell for a column the old file lacks
ReEmit(header, old_header, row) ==
    [k \in DOMAIN header |->
        IF \E j \in DOMAIN old_header : old_header[j] = header[k]
        THEN row[CHOOSE j \in DOMAIN old_header :
                    /\ old_header[j] = header[k]
                    /\ \A i \in DOMAIN old_header : old_header[i] = header[k] => i <= j]
        ELSE ""]

\* the entities create_csv passes over for the manifest of an episode
SkippedInCsv(v, episode) ==
    /\ EntityOf(v).type = "Shot"
    /\ EntityOf(v).episode # episode
    /\ episode_folders

\* episode_delivery_versions[entity.episode] raises KeyError for a shot whose
\* episode run() did not collect
CsvKeyError(v) ==
    /\ EntityOf(v).type = "Shot"
    /\ \A k \in DOMAIN episodes : episodes[k] # EntityOf(v).episode

\* the rows of the files of one version that are on disk
VersionRows(v) ==
    LET to_deliver == ToDeliver(v, get_deliverables[v])
        RECURSIVE rows(_)
        rows(i) == IF i > Len(to_deliver) THEN << >>
                   ELSE (IF to_deliver[i] \in fs_files
                         THEN << Row(to_deliver[i]) >> ELSE << >>) \o rows(i + 1)
    IN rows(1)

RECURSIVE CsvBody(_, _, _)
\* the loop over the entities in create_csv from position i on: the rows
\* written, and whether the loop ended by a KeyError
CsvBody(episode, i, rows) ==
    IF i > Len(DeliveryList) THEN [rows |-> rows, raised |-> FALSE]
    ELSE IF SkippedInCsv(DeliveryList[i], episode) THEN CsvBody(episode, i + 1, rows)
    ELSE IF CsvKeyError(DeliveryList[i]) THEN [rows |-> rows, raised |-> TRUE]
    ELSE CsvBody(episode, i + 1, rows \o VersionRows(DeliveryList[i]))

\* one iteration of the manifest loop, that is one create_csv call: the rows
\* of an existing manifest are read, the file is opened for writing, the
\* header, the existing rows and a row for every delivered file are written
ExCsv ==
    /\ ex_pc = "csv"
    /\ LET episode == FolderLoop[ex_i]
           folder == DeliveryFolder(episode, episode_delivery_versions[episode])
           old == IF HasManifest(folder) THEN ManifestAt(folder)
                  ELSE [folder |-> folder, header |-> << >>, rows |-> << >>]
           body == CsvBody(episode, 1, << >>)
       IN IF \E k \in DOMAIN old.rows : ShortRow(old.header, old.rows[k])
          THEN /\ Crash("csv_read")
               /\ UNCHANGED <<fs_csv, csv_written, ex_i>>
          ELSE /\ fs_csv' = {m \in fs_csv : m.folder # folder} \cup
                     {[folder |-> folder, header |-> CsvHeader,
                       rows |-> [k \in DOMAIN old.rows |->
                                   ReEmit(CsvHeader, old.header, old.rows[k])]
                                \o body.rows]}
               /\ IF body.raised
                  THEN /\ Crash("csv_write")
                       /\ UNCHANGED <<csv_written, ex_i>>
                  ELSE /\ csv_written' = csv_written \cup {folder}
                       /\ IF ex_i = Len(FolderLoop)
                          THEN ex_pc' = "finish" /\ ex_i' = 1
                          ELSE ex_pc' = ex_pc /\ ex_i' = ex_i + 1
                       /\ UNCHANGED ex_crash
    /\ UNCHANGED <<ex_run, user_settings, episode_folders, get_deliverables,
                   version_deliverables, episodes, episode_delivery_versions, fs_root,
                   fs_folders, fs_files, finish_calls, ex_attempted, ex_outcome,
                   csv_before, verVars, exDbVars, exScanVars, notExVars>>

\* self.finish_export_versions()
ExFinish ==
    /\ ex_pc = "finish"
    /\ finish_calls' = finish_calls + 1
    /\ ex_pc' = "finished"
    /\ UNCHANGED <<ex_run, ex_crash, user_settings, episode_folders, get_deliverables,
                   version_deliverables, episodes, episode_delivery_versions, ex_i,
                   fs_root, fs_folders, fs_files, fs_csv, ex_attempted, ex_outcome,
                   csv_written, csv_before, verVars, exDbVars, exScanVars, notExVars>>

\* export_versions is called again with the same user settings and
\* deliverables, once the first run has ended
ExAgain ==
    /\ ex_pc \in {"finished", "crashed"}
    /\ ex_run = "first"
    /\ ex_run' = "second"
    /\ ex_pc' = "collect"
    /\ ex_crash' = "none"
    /\ version_deliverables' = {}
    /\ episodes' = << >>
    /\ episode_delivery_versions' = [e \in {None, "ep1", "ep2"} |-> 0]
    /\ ex_i' = 1
    /\ finish_calls' = 0
    /\ ex_attempted' = {}
    /\ ex_outcome' = [v \in VersionIds |-> "none"]
    /\ csv_written' = {}
    /\ csv_before' = fs_csv
    /\ ex_step' = [v \in VersionIds |-> "none"]
    /\ ex_scans' = 0
    /\ UNCHANGED <<user_settings, episode_folders, get_deliverables, fs_root,
                   fs_folders, fs_files, fs_csv, sg_status, continuous_versioning,
                   fs_items, ex_batch, verVars, notExVars>>

(***************************************************************************)
(* Specifications.                                                         *)
(***************************************************************************)
InitThreads == ThreadsInit /\ CacheInit /\ VerIdle /\ NukeIdle /\ ValIdle /\ SeqIdle /\ ExIdle /\ EntIdle /\ PoIdle /\ CxIdle /\ UsIdle /\ DlIdle

NextThreads ==
    \/ load_shots_data
    \/ export_versions
    \/ LoadShotsThreadRun
    \/ ExportShotsThreadRun
    \/ quit

SpecThreads == InitThreads /\ [][NextThreads]_vars

InitCache == CacheInit /\ ThreadsInit /\ VerIdle /\ NukeIdle /\ ValIdle /\ SeqIdle /\ ExIdle /\ EntIdle /\ PoIdle /\ CxIdle /\ UsIdle /\ DlIdle

NextCache ==
    \/ find
    \/ find_raw
    \/ process

SpecCache == InitCache /\ [][NextCache]_vars

InitNuke == NukeInit /\ ThreadsInit /\ CacheInit /\ ValIdle /\ SeqIdle /\ ExIdle /\ EntIdle /\ PoIdle /\ CxIdle /\ UsIdle /\ DlIdle

NextNuke ==
    \/ NukeRun
    \/ OnOutput
    \/ OnScriptError
    \/ NukeExit
    \/ DeliverVersionExcept

SpecNuke == InitNuke /\ [][NextNuke]_vars

InitValidate == ValInit /\ ThreadsInit /\ CacheInit /\ NukeIdle /\ SeqIdle /\ ExIdle /\ EntIdle /\ PoIdle /\ CxIdle /\ UsIdle /\ DlIdle

NextValidate ==
    \/ ValidateVersion
    \/ ValidateReturn

SpecValidate == InitValidate /\ [][NextValidate]_vars

InitSequence == SeqInit /\ ThreadsInit /\ CacheInit /\ VerIdle /\ NukeIdle /\ ValIdle /\ ExIdle /\ EntIdle /\ PoIdle /\ CxIdle /\ UsIdle /\ DlIdle

NextSequence ==
    \/ SeqDecide
    \/ SeqRender
    \/ SeqLinkStart
    \/ SeqLinkFrame
    \/ SeqReturn

SpecSequence == InitSequence /\ [][NextSequence]_vars

InitEntity == EntInit /\ ThreadsInit /\ CacheInit /\ VerIdle /\ NukeIdle /\ ValIdle /\ SeqIdle /\ ExIdle /\ PoIdle /\ CxIdle /\ UsIdle /\ DlIdle

NextEntity == AddVersion

SpecEntity == InitEntity /\ [][NextEntity]_vars

InitPreviews == PoInit /\ ThreadsInit /\ CacheInit /\ VerIdle /\ NukeIdle /\ ValIdle /\ SeqIdle /\ ExIdle /\ EntIdle /\ CxIdle /\ UsIdle /\ DlIdle

NextPreviews ==
    \/ TogglePreviewOutput
    \/ OnPreviewsChange
    \/ GetUserSettings

SpecPreviews == InitPreviews /\ [][NextPreviews]_vars

InitContext == CxInit /\ ThreadsInit /\ CacheInit /\ VerIdle /\ NukeIdle /\ ValIdle /\ SeqIdle /\ ExIdle /\ EntIdle /\ PoIdle /\ UsIdle /\ DlIdle

NextContext == ApplyContext

SpecContext == InitContext /\ [][NextContext]_vars

InitSettings == UsInit /\ ThreadsInit /\ CacheInit /\ VerIdle /\ NukeIdle /\ ValIdle /\ SeqIdle /\ ExIdle /\ EntIdle /\ PoIdle /\ CxIdle /\ DlIdle

NextSettings ==
    \/ ExportVersions
    \/ OnDeliveryVersionChange
    \/ OnDeliveryLocationChange
    \/ OnLetterboxEnableChange
    \/ OnRunPreviewsChange
    \/ OnCsvChange
    \/ RunNumbering
    \/ RunDeliverPreview
    \/ RunCreateCsv
    \/ RunFinish

SpecSettings == InitSettings /\ [][NextSettings]_vars

InitDeliver == DlInit /\ ThreadsInit /\ CacheInit /\ VerIdle /\ NukeIdle /\ ValIdle /\ SeqIdle /\ ExIdle /\ EntIdle /\ PoIdle /\ CxIdle /\ UsIdle

NextDeliver ==
    \/ DeliverPreviewJob
    \/ DeliverSequenceJob
    \/ UpdateVersionData
    \/ FinishDelivery

SpecDeliver == InitDeliver /\ [][NextDeliver]_vars

InitExport == ExInit /\ ThreadsInit /\ CacheInit /\ NukeIdle /\ ValIdle /\ SeqIdle /\ EntIdle /\ PoIdle /\ CxIdle /\ UsIdle /\ DlIdle

\* one export run, with every failure of deliver_version
NextExport ==
    \/ ExCollect
    \/ ExNumber
    \/ ExMkdir
    \/ ExDeliver(Faults)
    \/ ExCsv
    \/ ExFinish

SpecExport == InitExport /\ [][NextExport]_vars

\* two export runs in a row; a delivery returns, or finds its files there
NextReexport ==
    \/ ExCollect
    \/ ExNumber
    \/ ExMkdir
    \/ ExDeliver({"FileExistsError"})
    \/ ExCsv
    \/ ExFinish
    \/ ExAgain

SpecReexport == InitExport /\ [][NextReexport]_vars

(***************************************************************************)
(* C1: deliver_version never lets an exception escape: a FileExistsError,  *)
(* a LicenseError or any other exception raised while one version is       *)
(* delivered is recorded in that version's validation_error and reported   *)
(* through the error callback, and the run goes on to call deliver_version *)
(* for every remaining version with a deliverable.                         *)
(***************************************************************************)
C1_DeliverVersionContainsFailures ==
    /\ ex_crash # "deliver_version"
    /\ \A v \in VersionIds :
          ex_outcome[v] \in Faults =>
             /\ ver[v].validation_error = ExceptMessage(ex_outcome[v])
             /\ ver[v].validation_message # "Export finished!"
             /\ cb_error[v] = 1
             /\ cb_message[v] = 0
    /\ ex_pc = "deliver" =>
          ex_attempted = {DeliveryList[i] : i \in 1..(ex_i - 1)} \cap version_deliverables
    /\ ex_pc \in {"csv", "finish", "finished"} => ex_attempted = version_deliverables

C1_Witness ==
    /\ ex_pc = "finished"
    /\ \E i, j \in DOMAIN DeliveryList :
          /\ i < j
          /\ ex_outcome[DeliveryList[i]] \in Faults
          /\ ex_outcome[DeliveryList[j]] = "ok"
          /\ ver[DeliveryList[j]].validation_message = "Export finished!"

(***************************************************************************)
(* C2: running the export twice against the same destination folder with  *)
(* an unchanged list of CSV columns does not duplicate manifest rows: after *)
(* the second run a manifest holds the first run's rows verbatim, and at    *)
(* most one row for a delivered file that already had a row.                *)
(***************************************************************************)
C2_Count(rows, row) == Cardinality({k \in DOMAIN rows : rows[k] = row})

C2_ReexportDoesNotDuplicateRows ==
    (ex_run = "second" /\ ex_pc = "finished" /\ user_settings.delivery_version # 0) =>
        \A m \in fs_csv : \A b \in csv_before :
            b.folder = m.folder =>
               /\ Len(b.rows) <= Len(m.rows)
               /\ SubSeq(m.rows, 1, Len(b.rows)) = b.rows
               /\ \A a \in fs_files :
                     C2_Count(b.rows, Row(a)) = 1 => C2_Count(m.rows, Row(a)) = 1

(***************************************************************************)
(* C3: every started export run invokes the completion callback exactly    *)
(* once, after all version deliveries and all manifest writes of the run,   *)
(* also when a step outside the per-version delivery (the scan of the       *)
(* destination root, the reading or writing of a manifest) fails.           *)
(***************************************************************************)
C3_CompletionCallbackOnce ==
    /\ finish_calls <= 1
    /\ finish_calls = 1 =>
          /\ ex_attempted = version_deliverables
          /\ \A i \in DOMAIN FolderLoop :
                DeliveryFolder(FolderLoop[i], episode_delivery_versions[FolderLoop[i]])
                   \in csv_written
    /\ ex_pc \in {"finished", "crashed"} => finish_calls = 1

(***************************************************************************)
(* C4: in the sequence delivery, when the matched policy constrains only   *)
(* compression and the requested value, compared case-insensitively, is    *)
(* contained in the header's compression tag without its _COMPRESSION      *)
(* suffix (or in its friendly name), and no alpha stripping applies, no    *)
(* rerender is required: the frames go through the link/copy path and the  *)
(* renderer is not run to re-encode them.                                  *)
(***************************************************************************)
C4_CompressionOnlySatisfied ==
    LET o == MatchOutput(delivery_sequence_outputs, sq_in.sequence_output_status)
    IN /\ o.matched
       /\ Keys(o.settings) = {"compression"}
       /\ sq_in.metadata.has_compression
       /\ CompressionMatches(o, sq_in.metadata)

C4_MatchingCompressionIsNotRerendered ==
    (/\ C4_CompressionOnlySatisfied
     /\ ~AlphaRerender(sq_in.remove_alpha_from_sequence, sq_in.metadata)) =>
        /\ sq_pc # "start" => ~should_rerender
        /\ sq_runs > 0 => "--slate-only" \in {sq_args[i] : i \in DOMAIN sq_args}
        /\ sq_pc = "done" =>
              sq_linked = {n \in 1..MaxFrame :
                             FirstDelivered(sq_in) <= n /\ n <= sq_in.last_frame}

(***************************************************************************)
(* C5: in the sequence delivery, whenever a policy is matched and it is not *)
(* a compression-only constraint satisfied by the source header, rerender   *)
(* is required: the renderer is run with the policy's write settings and    *)
(* no frame is linked or copied.                                            *)
(***************************************************************************)
C5_Applies ==
    /\ MatchOutput(delivery_sequence_outputs, sq_in.sequence_output_status).matched
    /\ ~C4_CompressionOnlySatisfied

C5_UnsatisfiedPolicyIsRerendered ==
    C5_Applies =>
        /\ sq_pc # "start" =>
              /\ should_rerender
              /\ output = MatchOutput(delivery_sequence_outputs,
                                      sq_in.sequence_output_status)
        /\ sq_pc \in {"rendered", "done"} =>
              /\ sq_runs = 1
              /\ \E i \in DOMAIN sq_args : sq_args[i] = "--write-settings"
              /\ \A i \in DOMAIN sq_args : sq_args[i] # "--slate-only"
              /\ sq_cli = output.settings \cup {<< "file_type", output.extension >>}
        /\ sq_pc \notin {"linking"}
        /\ sq_linked = {}

C5_Witness ==
    /\ C5_Applies
    /\ sq_pc = "done"
    /\ sq_runs = 1
    /\ Keys(output.settings) = {"compression"}
    /\ sq_in.metadata.has_compression
    /\ ~sq_in.remove_alpha_from_sequence

(***************************************************************************)
(* C6: validate_all_versions does not pass a version flagged for sequence  *)
(* delivery whose frame sweep (first_frame <= n < last_frame) finds a frame *)
(* without a file: its validation_error holds one missing-frame diagnostic  *)
(* per missing frame, the error callback (not the success callback) is      *)
(* invoked for it, and validate_all_versions returns false.                 *)
(***************************************************************************)
C6_MissingFrames(v) ==
    IF NoneOrNegative(val_in[v].first_frame) \/ NoneOrNegative(val_in[v].last_frame)
       \/ ~Formats(val_in[v].sequence_path)
    THEN {}
    ELSE {n \in 0..MaxFrame :
            /\ val_in[v].first_frame.n <= n
            /\ n < val_in[v].last_frame.n
            /\ n \notin val_in[v].files}

C6_MissingFrameFailsValidation ==
    \A v \in VersionIds :
       (v < val_i /\ val_in[v].deliver_sequence /\ C6_MissingFrames(v) # {}) =>
          /\ \A n \in C6_MissingFrames(v) :
                Cardinality({k \in DOMAIN val_errors[v] :
                    val_errors[v][k] = "Can't find frame " \o ToString(n) \o "."}) = 1
          /\ ver[v].validation_error # ""
          /\ ver[v].validation_message # "Initial validation checks passed!"
          /\ cb_error[v] = 1
          /\ cb_message[v] = 0
          /\ (val_pc = "returned" => ~val_success)

(***************************************************************************)
(* C7: when the renderer's standard output holds the license-unavailable   *)
(* marker while version V is rendered, V's validation_error is set, the     *)
(* error callback is invoked for V and a License error is raised; progress, *)
(* validation_message and validation_error of every other version of the    *)
(* batch, the delivered ones included, stay as they were.                   *)
(***************************************************************************)
C7_LicenseFailureTouchesOnlyItsVersion ==
    /\ nk_marker =>
          /\ nk_license
          /\ ver[nk_version].validation_error # ""
          /\ cb_error[nk_version] >= 1
    /\ \A w \in VersionIds \ {nk_version} :
          /\ ver[w] = IF w < nk_version THEN VerDelivered ELSE VerFresh
          /\ cb_error[w] = 0

\* a license failure caught for a version that has a delivered sibling
C7_Witness ==
    /\ nk_marker
    /\ nk_raised = "LicenseError"
    /\ nk_pc = "caught"
    /\ nk_version > 1
    /\ ver[1] = VerDelivered

(***************************************************************************)
(* C8: run re-invokes the renderer at most once per call, and only when the *)
(* standard-error text accumulated at exit mentions the invalid start       *)
(* timecode and the arguments hold --timecode-ref; the second invocation    *)
(* gets the original arguments without --timecode-ref and its value, and a  *)
(* failing second invocation raises instead of being retried.               *)
(***************************************************************************)
C8_RetryAtMostOnce ==
    /\ Len(nk_invocations) <= 2
    /\ Len(nk_invocations) = 2 =>
          LET first == nk_invocations[1]
              i == IndexOf(first, "--timecode-ref")
          IN /\ MentionsTimecode(nk_exit_errors[1])
             /\ Contains(first, "--timecode-ref")
             /\ nk_invocations[2] =
                    SubSeq(first, 1, i - 1) \o SubSeq(first, i + 2, Len(first))
    /\ (Len(nk_exit_errors) = 2 /\ nk_exit_errors[2] # << >>) =>
          (nk_pc \in {"raised", "caught"} /\ nk_raised = "Exception")

\* a retried render whose second invocation failed and raised
C8_Witness ==
    /\ Len(nk_invocations) = 2
    /\ Len(nk_exit_errors) = 2
    /\ nk_exit_errors[2] # << >>
    /\ nk_raised = "Exception"

(***************************************************************************)
(* C10: at any time at most one export worker and at most one load worker  *)
(* is running, and no export worker runs while a load worker runs.         *)
(***************************************************************************)
C10_OneWorkerAtATime ==
    /\ Cardinality(RunningOf("load")) <= 1
    /\ Cardinality(RunningOf("export")) <= 1
    /\ ~(RunningOf("load") # {} /\ RunningOf("export") # {})

(***************************************************************************)
(* C9: a find repeated with the same entity type and equal filters, without *)
(* forced refresh, is answered from the memo and issues no database query;  *)
(* a find with forced refresh always queries the database.                  *)
(***************************************************************************)
C9_RepeatedFindFromMemo ==
    /\ (lastFind.repeat /\ ~lastFind.ignore_cache)
          => (lastFind.from_memo /\ lastFind.db_calls = 0)
    /\ (lastFind.type # None /\ lastFind.ignore_cache) => lastFind.db_calls = 1

(***************************************************************************)
(* C11: deliver_version writes a status to the production database for a   *)
(* version only when all its jobs, the attachment and the LUT delivery      *)
(* finished without an exception; the label is the sequence-delivered       *)
(* status iff sequence delivery was requested, the preview-delivered status *)
(* otherwise; the parent Shot is updated iff sequence delivery was          *)
(* requested and the entity is a Shot; a version whose delivery was skipped *)
(* or failed gets no update.                                                *)
(***************************************************************************)
C11_VersionUpdates(v) == {u \in sg_status : u.type = "Version" /\ u.id = v}
C11_ShotUpdates(v) ==
    {u \in sg_status : u.type = "Shot" /\ u.id = EntityOf(v).id
                       /\ EntityOf(v).type = "Shot"}

C11_StatusOnlyAfterDelivery ==
    \A v \in VersionIds :
        /\ ex_outcome[v] = "ok" =>
              /\ C11_VersionUpdates(v) =
                    {[type |-> "Version", id |-> v,
                      status |-> IF get_deliverables[v].deliver_sequence
                                 THEN version_delivered_status
                                 ELSE version_preview_delivered_status]}
              /\ (C11_ShotUpdates(v) # {}) <=>
                    (get_deliverables[v].deliver_sequence /\ EntityOf(v).type = "Shot")
        /\ ex_outcome[v] # "ok" =>
              /\ C11_VersionUpdates(v) = {}
              /\ C11_ShotUpdates(v) = {}

(***************************************************************************)
(* C12: in the link/copy path of the sequence delivery, for every frame     *)
(* range with at least one frame (first frame after the slate offset <=     *)
(* last_frame), every frame of the range is linked or copied and the        *)
(* progress reported after each frame is strictly increasing, from 0 to 1.  *)
(***************************************************************************)
C12_LinkPathEnded ==
    /\ sq_pc \in {"done", "raised"}
    /\ \E k \in DOMAIN sq_messages : sq_messages[k] = "Delivering frames..."
    /\ FirstDelivered(sq_in) <= sq_in.last_frame

C12_LinkProgressFromZeroToOne ==
    C12_LinkPathEnded =>
        /\ sq_pc = "done"
        /\ sq_linked = {n \in 1..MaxFrame :
                          FirstDelivered(sq_in) <= n /\ n <= sq_in.last_frame}
        /\ Len(sq_progress) = sq_in.last_frame - FirstDelivered(sq_in) + 1
        /\ \A k \in DOMAIN sq_progress : sq_progress[k][2] > 0
        /\ sq_progress[1][1] = 0
        /\ sq_progress[Len(sq_progress)][1] = sq_progress[Len(sq_progress)][2]
        /\ \A k \in 1..(Len(sq_progress) - 1) :
              sq_progress[k][1] * sq_progress[k + 1][2]
                 < sq_progress[k + 1][1] * sq_progress[k][2]

(***************************************************************************)
(* C13: with no explicit delivery_version the number claimed for a bucket  *)
(* is 1 plus the largest delivery_version among the sub-folders of the      *)
(* destination root that parse against the delivery folder template (1      *)
(* when there is none), where only the folders dated today count without    *)
(* continuous versioning and all of them count with it; an explicit         *)
(* delivery_version is used unchanged and no folder is scanned.             *)
(***************************************************************************)
C13_Counted(episode) ==
    {f \in fs_folders : /\ f.episode = (IF episode_folders THEN episode ELSE None)
                        /\ continuous_versioning \/ f.delivery_date = "today"}

C13_Claimed(episode, n) ==
    IF user_settings.delivery_version = 0
    THEN /\ ex_scans' = ex_scans + 1
         /\ \/ n = 1 /\ C13_Counted(episode) = {}
            \/ /\ \E f \in C13_Counted(episode) : f.delivery_version = n - 1
               /\ \A f \in C13_Counted(episode) : f.delivery_version <= n - 1
    ELSE /\ n = user_settings.delivery_version
         /\ ex_scans' = ex_scans
         /\ ex_scans = 0

C13_NumberIsMaxPlusOne ==
    [][(ex_pc = "number" /\ ex_pc' # "crashed") =>
          C13_Claimed(episodes[ex_i], episode_delivery_versions'[episodes[ex_i]])]_vars

C13_Witness ==
    /\ ex_pc = "mkdir"
    /\ user_settings.delivery_version = 0
    /\ ~continuous_versioning
    /\ OlderFolder \in fs_folders
    /\ fs_items # {}
    /\ ex_scans = Len(episodes)
    /\ episode_delivery_versions[None] = 2

(***************************************************************************)
(* C14: within one export run the delivery version of a bucket is computed *)
(* once, before any version is delivered; every version of every shot of   *)
(* an episode is delivered and listed in the manifest with the number of   *)
(* that episode, and every asset version and every version of a shot       *)
(* without episode with the number of the default bucket.                  *)
(***************************************************************************)
C14_Bucket(v) == IF EntityOf(v).type = "Shot" THEN EntityOf(v).episode ELSE None

C14_Number(v) == episode_delivery_versions[C14_Bucket(v)]

C14_Listed(v) ==
    \E m \in fs_csv : \E k \in DOMAIN m.rows :
        /\ Len(m.rows[k]) = Len(CsvHeader)
        /\ m.rows[k][1] = ToString(v)
        /\ m.rows[k][3] = ToString(C14_Number(v))

C14_State ==
    /\ ex_pc \in {"collect", "number"} => ex_attempted = {}
    /\ ex_pc \in {"csv", "finish", "finished"} => version_deliverables \subseteq ex_attempted
    /\ \A a \in fs_files :
          a.version \in ex_attempted => a.folder.delivery_version = C14_Number(a.version)
    /\ \A v \in ex_attempted :
          ex_outcome[v] = "ok" =>
             /\ \A i \in DOMAIN ToDeliver(v, get_deliverables[v]) :
                   /\ ToDeliver(v, get_deliverables[v])[i] \in fs_files
                   /\ ToDeliver(v, get_deliverables[v])[i].folder.delivery_version
                         = C14_Number(v)
             /\ ex_pc = "finished" => C14_Listed(v)
    /\ \A m \in fs_csv : \A k \in DOMAIN m.rows : \A v \in VersionIds :
          (Len(m.rows[k]) = Len(CsvHeader) /\ m.rows[k][1] = ToString(v))
             => m.rows[k][3] = ToString(C14_Number(v))

C14_OneNumberPerBucket ==
    /\ []C14_State
    /\ [][episode_delivery_versions' # episode_delivery_versions =>
             /\ ex_pc = "number"
             /\ ex_attempted = {}
             /\ episode_delivery_versions[episodes[ex_i]] = 0
             /\ \A e \in DOMAIN episode_delivery_versions :
                   e # episodes[ex_i] =>
                      episode_delivery_versions'[e] = episode_delivery_versions[e]]_vars

C14_Witness ==
    /\ ex_pc = "finished"
    /\ ex_batch = "one_episode"
    /\ episode_folders
    /\ episode_delivery_versions["ep1"] # episode_delivery_versions[None]
    /\ \A v \in VersionIds :
          /\ ex_outcome[v] = "ok"
          /\ C14_Listed(v)
          /\ \E a \in fs_files : a.version = v /\ a.folder.delivery_version = C14_Number(v)

(***************************************************************************)
(* C15: rewriting an existing manifest loses no prior data: every prior    *)
(* row is written again under the current header, a column the old file    *)
(* lacks is filled with empty cells, and no value of a column of the old   *)
(* file is dropped.                                                        *)
(***************************************************************************)
C15_Kept(old, new) ==
    /\ Len(new.rows) >= Len(old.rows)
    /\ \A k \in DOMAIN old.rows :
          /\ Len(new.rows[k]) = Len(new.header)
          /\ \A c \in DOMAIN new.header :
                (\A j \in DOMAIN old.header : old.header[j] # new.header[c])
                   => new.rows[k][c] = ""
          /\ \A j \in DOMAIN old.header :
                old.rows[k][j] # "" =>
                   \E c \in DOMAIN new.header :
                      /\ new.header[c] = old.header[j]
                      /\ new.rows[k][c] = old.rows[k][j]

C15_RewriteKeepsPriorData ==
    \A old \in csv_before :
        old.folder \in csv_written => C15_Kept(old, ManifestAt(old.folder))

(***************************************************************************)
(* C16: get_versions() of a Shot or an Asset returns the versions sorted   *)
(* ascending by version_number, whatever the order they were added in.     *)
(***************************************************************************)
C16_GetVersionsSorted ==
    /\ \A i, j \in DOMAIN get_versions :
          i < j => get_versions[i].version_number <= get_versions[j].version_number
    /\ {get_versions[i].id : i \in DOMAIN get_versions} = 1..Len(get_versions)

C16_Witness ==
    /\ Len(get_versions) = MaxAdds
    /\ \E i, j \in DOMAIN get_versions :
          /\ i < j
          /\ get_versions[i].id > get_versions[j].id
          /\ get_versions[i].version_number < get_versions[j].version_number

(***************************************************************************)
(* C17: the effective list of preview outputs holds at most one output per *)
(* extension; of several enabled outputs of one extension the one with the *)
(* highest configured index survives (the first met in reverse order), and *)
(* every enabled extension keeps exactly one output.                       *)
(***************************************************************************)
C17_Effective(r) ==
    r.set =>
       /\ \A k, n \in DOMAIN r.outputs :
             k # n => po_extensions[r.outputs[k]] # po_extensions[r.outputs[n]]
       /\ \A k \in DOMAIN r.outputs : r.enabled[r.outputs[k]]
       /\ \A i \in OutputIds :
             r.enabled[i] =>
                /\ Cardinality({k \in DOMAIN r.outputs :
                                  po_extensions[r.outputs[k]] = po_extensions[i]}) = 1
                /\ \A k \in DOMAIN r.outputs :
                      po_extensions[r.outputs[k]] = po_extensions[i] => r.outputs[k] >= i

C17_OneOutputPerExtension == C17_Effective(po_user) /\ C17_Effective(po_got)

C17_Witness ==
    /\ po_got.set
    /\ po_user.set
    /\ po_user.outputs = po_got.outputs
    /\ Len(po_got.outputs) > 1
    /\ \E i, j \in OutputIds :
          /\ i < j
          /\ po_got.enabled[i] /\ po_got.enabled[j]
          /\ po_extensions[i] = po_extensions[j]
          /\ \E k \in DOMAIN po_got.outputs : po_got.outputs[k] = j

(***************************************************************************)
(* C18: within one render attempt the wrapper only moves forward through   *)
(* not-started, started, rendering: the Starting message, with progress 0, *)
(* is reported exactly once, on the first read of standard output, and the *)
(* Rendering message exactly once, on the first read with a Frame line     *)
(* that does not end in a LicenseError, never before the Starting message. *)
(***************************************************************************)
C18_State ==
    /\ nk_messages \in {<< >>, << "Starting" >>, << "Starting", "Rendering" >>}
    /\ (nk_stdout > 0) <=> (Len(nk_messages) >= 1)
    /\ nk_zero = (IF nk_stdout > 0 THEN 1 ELSE 0)
    /\ (nk_frame_reads > 0) <=> (Len(nk_messages) = 2)
    /\ has_started <=> (Len(nk_messages) >= 1)
    /\ has_rendered <=> (Len(nk_messages) = 2)

C18_ForwardOnly ==
    /\ []C18_State
    /\ [][nk_invocations' = nk_invocations =>
             /\ has_started => has_started'
             /\ has_rendered => has_rendered'
             /\ Len(nk_messages') >= Len(nk_messages)]_vars

C18_Witness ==
    /\ nk_stdout = MaxReads
    /\ nk_frame_reads = 1
    /\ nk_messages = << "Starting", "Rendering" >>

(***************************************************************************)
(* C20: every Frame line the renderer writes to standard output leads to   *)
(* one call of the progress callback, also when several Frame lines arrive *)
(* in the same read (no read of the attempt holding the license text).     *)
(***************************************************************************)
C20_EveryFrameLineReported == ~nk_marker => nk_progress = nk_frame_lines

(***************************************************************************)
(* C19: validate_all_frames_exist checks exactly the frames n with         *)
(* first_frame <= n < last_frame and returns exactly one diagnostic per    *)
(* checked frame that has no file; the frame last_frame is not checked,    *)
(* and a failure to format the frame path ends the sweep with a single     *)
(* diagnostic.                                                             *)
(***************************************************************************)
C19_Checked(v) ==
    {n \in 0..(MaxFrame + 1) :
        val_in[v].first_frame.n <= n /\ n < val_in[v].last_frame.n}

C19_Swept(v) ==
    /\ v < val_i
    /\ val_in[v].deliver_sequence
    /\ ~NoneOrNegative(val_in[v].first_frame)
    /\ ~NoneOrNegative(val_in[v].last_frame)

C21_Retried == nk_pc = "running" /\ nk_invocations' # nk_invocations

C21_RaisesIffLastAttemptWroteErrors ==
    /\ [](/\ (nk_pc = "raised" /\ nk_raised = "Exception") =>
                (nk_stderr # << >> /\ error_message = nk_stderr)
          /\ nk_pc = "returned" => nk_stderr = << >>
          /\ nk_pc = "running" => error_message = nk_stderr)
    /\ [][/\ C21_Retried =>
                /\ error_message' = << >>
                /\ ~has_started' /\ ~has_rendered'
                /\ ver'[nk_version].progress = JobProgress(nk_job, 0, 1)
          /\ (nk_pc = "running" /\ nk_exit_errors' # nk_exit_errors /\ ~C21_Retried) =>
                IF nk_stderr # << >>
                THEN nk_pc' = "raised" /\ nk_raised' = "Exception"
                ELSE nk_pc' = "returned"]_vars

C21_Witness ==
    /\ Len(nk_invocations) = 2
    /\ Len(nk_exit_errors) = 2
    /\ nk_exit_errors[1] # << >>
    /\ nk_exit_errors[2] = << >>
    /\ nk_pc = "returned"

(***************************************************************************)
(* C22: the buckets for which an export run computes a delivery version,   *)
(* creates a destination folder and writes a manifest are exactly the      *)
(* buckets that hold a version with a requested deliverable; a bucket with *)
(* no such version gets no folder and no manifest (stated for a delivery   *)
(* folder template with the Episode key, where every bucket has a folder   *)
(* of its own).                                                            *)
(***************************************************************************)
C22_Holds(e) ==
    \E v \in version_deliverables :
        (IF EntityOf(v).type = "Shot" THEN EntityOf(v).episode ELSE None) = e

C22_OnlyBucketsWithDeliverables ==
    (ex_pc = "finished" /\ episode_folders) =>
        \A e \in DOMAIN episode_delivery_versions :
            /\ (episode_delivery_versions[e] # 0) <=> C22_Holds(e)
            /\ (\E f \in csv_written : f.episode = e) <=> C22_Holds(e)
            /\ ~C22_Holds(e) => ~\E f \in fs_folders \cup {m.folder : m \in fs_csv} :
                                    f.episode = e /\ f \notin {b.folder : b \in csv_before}
                                    /\ f \notin {EarlierFolder, OlderFolder}

(***************************************************************************)
(* C23: a version requested for sequence delivery whose sequence path is   *)
(* not empty but whose published file carries no valid version number      *)
(* (loaded as -1) fails validation with the diagnostic that the linked     *)
(* published file has no version.                                          *)
(***************************************************************************)
C23_NoPublishedVersion(v) ==
    /\ v < val_i
    /\ val_in[v].deliver_sequence
    /\ val_in[v].sequence_path # None
    /\ val_in[v].sequence_path # ""
    /\ val_in[v].published_file_version = 0 - 1

RECURSIVE C24_Joined(_, _)
C24_Joined(errors, k) ==
    IF k > Len(errors) THEN ""
    ELSE IF k = Len(errors) THEN errors[k]
    ELSE errors[k] \o "\n" \o C24_Joined(errors, k + 1)

C25_Progress == ver[nk_version].progress

C25_ProgressNeverDecreases ==
    /\ [](/\ 0 <= C25_Progress[1]
          /\ C25_Progress[1] <= C25_Progress[2])
    /\ [][nk_frame_lines' <= nk_frame_lines =>
             C25_Progress'[1] * C25_Progress[2] >= C25_Progress[1] * C25_Progress'[2]]_vars

(***************************************************************************)
(* C26: apply_context resolves the shot used for shot fields as the first  *)
(* available of: the Shot given as context.entity, then context.shot, then *)
(* the parent shot of the resolved version; a template with shot fields    *)
(* resolves when only context.shot is supplied and that shot is in the     *)
(* cache, and raises only when none of the three yields a shot.            *)
(***************************************************************************)
C26_Cached(id) == IF id \in cx_in.raw_shots THEN id ELSE 0

C26_FromEntity == IF cx_in.entity.type = "Shot" THEN C26_Cached(cx_in.entity.id) ELSE 0

C26_FromShot == C26_Cached(cx_in.shot)

C26_FromVersion ==
    IF cx_version # 0 /\ cx_in.version_entity.type = "Shot"
    THEN C26_Cached(cx_in.version_entity.id) ELSE 0

C26_FirstAvailable ==
    IF C26_FromEntity # 0 THEN C26_FromEntity
    ELSE IF C26_FromShot # 0 THEN C26_FromShot
    ELSE C26_FromVersion

C26_ShotIsFirstAvailable ==
    (cx_pc # "call" /\ cx_in.shot_field /\ ~(cx_in.version_field /\ cx_version = 0)) =>
        /\ (cx_pc = "raised") <=> (C26_FirstAvailable = 0)
        /\ cx_pc = "returned" => cx_shot = C26_FirstAvailable

(***************************************************************************)
(* C27: the user settings of an export run do not change between the start *)
(* of the run and its completion callback: every delivery_version,         *)
(* delivery_location, letterbox, preview output and CSV columns the run    *)
(* reads is the value the run was started with, whatever handlers of the   *)
(* settings panel run in between.                                          *)
(***************************************************************************)
C27_All(read, value) == \A n \in DOMAIN read : read[n] = value

C27_ScalarsAsStarted ==
    /\ C27_All(us_read.delivery_version, us_start.settings.delivery_version)
    /\ C27_All(us_read.delivery_location, us_start.settings.delivery_location)
    /\ C27_All(us_read.csv_fields, us_start.settings.csv_fields)
    /\ us_run = us_start.settings

C27_RunReadsWhatItWasStartedWith ==
    /\ C27_ScalarsAsStarted
    /\ \A k \in DOMAIN us_read.letterbox :
          us_read.letterbox[k] = (us_start.settings.letterbox /\ us_start.use_letterbox[k])

(***************************************************************************)
(* C28: applying the configured overrides, through process() or through    *)
(* find() on a cache miss, never changes a record of the raw view: every   *)
(* record get_raw returns is a record as the database returned it.         *)
(***************************************************************************)
C28_AsReturned(type, rec) ==
    \E filters \in Filters : \E n \in DOMAIN DbRecords(type, filters) :
        rec = DbRecords(type, filters)[n]

C28_RawRecordsAsReturned ==
    \A type \in EntityTypes : \A i \in DOMAIN sg_raw[type] :
        C28_AsReturned(type, sg_heap[sg_raw[type][i]])

(***************************************************************************)
(* C29: every version that passes validation with sequence delivery        *)
(* requested has a source file for every frame the link/copy fast path     *)
(* reads afterwards, from first_frame plus the slate offset up to and      *)
(* including last_frame.                                                   *)
(***************************************************************************)
C29_Read(v, frames_have_slate) ==
    {n \in 0..(MaxFrame + 1) :
        /\ val_in[v].first_frame.n + (IF frames_have_slate THEN 1 ELSE 0) <= n
        /\ n <= val_in[v].last_frame.n}

C29_Passed(v) ==
    /\ v < val_i
    /\ val_in[v].deliver_sequence
    /\ val_errors[v] = << >>

C29_ValidatedFramesHaveFiles ==
    \A v \in VersionIds : \A frames_have_slate \in BOOLEAN :
       C29_Passed(v) => C29_Read(v, frames_have_slate) \subseteq val_in[v].files

(***************************************************************************)
(* C30: a version is reported as "Export finished!", and its status set to *)
(* a delivered label, only if at least one artifact (a preview file or the *)
(* sequence frames) was produced for it in that run.                       *)
(***************************************************************************)
C30_Reported == dl_message = "Export finished!" \/ dl_status # None

C30_FinishedOnlyWithAnArtifact == C30_Reported => dl_produced # {}

\* with at least one job, a reported version has an artifact
C30_FinishedWithJobsHasArtifact ==
    (C30_Reported /\ total_jobs(dl_in) > 0) => dl_produced # {}

====
